---- MODULE Spec2Model ----
(***************************************************************************)
(* Resilient invocation layer of src/error_handling_system.py:             *)
(* CircuitBreaker, RetryPolicy and ErrorRecoveryManager, run by several    *)
(* asyncio tasks that share one breaker.  A task is suspended only at an   *)
(* await that really yields: while its operation runs and while it sleeps  *)
(* between retry attempts.  Everything between two suspensions is one      *)
(* atomic step of the event loop.                                          *)
(***************************************************************************)
EXTENDS Integers, Sequences, FiniteSets, TLC

\* ---------------------------------------------------------------- bounds
NumCallers == 2
MaxCalls == 3
MaxTime == 3
MaxThreshold == 2
MaxRecoveryTimeout == 2
MaxAttempts == 2
MaxBaseDelay == 3
MaxBackoff == 3
MaxDelayCap == 6
MaxRequests == 10
MaxFailures == 6
MaxResponseTime == 6
MaxOps == 2
MaxRpm == 1

Callers == 1..NumCallers

\* ------------------------------------------------------- values and names
NoTime == -1
NoName == "None"
BreakerName == "example_service"
PolicyName == "default_retry"
UnknownName == "unregistered"

CircuitState == {"CLOSED", "OPEN", "HALF_OPEN"}
ErrorSeverity == {"LOW", "MEDIUM", "HIGH", "CRITICAL"}
CircuitBreakerOpenError == "CircuitBreakerOpenError"
CancelledError == "CancelledError"
OpErrors == {"ConnectionError", "ValueError"}
\* what example_failing_service raises
ServiceErrors == {"ConnectionError"}
OpValues == {"Success"}

Max(a, b) == IF a >= b THEN a ELSE b
Min(a, b) == IF a <= b THEN a ELSE b

\* ------------------------------------------------------------ ErrorMetrics
ErrorMetrics ==
  [total_errors |-> 0,
   errors_by_type |-> [e \in OpErrors |-> 0],
   errors_by_severity |-> [s \in ErrorSeverity |-> 0],
   last_error |-> NoTime,
   consecutive_errors |-> 0,
   recovery_attempts |-> 0,
   successful_recoveries |-> 0]

record_error(m, error_type, severity, t) ==
  [m EXCEPT !.total_errors = @ + 1,
            !.errors_by_type[error_type] = @ + 1,
            !.errors_by_severity[severity] = @ + 1,
            !.last_error = t,
            !.consecutive_errors = @ + 1]

record_success(m) ==
  [m EXCEPT !.consecutive_errors = 0,
            !.successful_recoveries = @ + 1]

\* ---------------------------------------------------------- CircuitBreaker
CircuitBreakerConfig(ft, rt, st, hm) ==
  [failure_threshold |-> ft, recovery_timeout |-> rt,
   success_threshold |-> st, half_open_max_calls |-> hm]

CircuitBreaker(config) ==
  [config |-> config,
   state |-> "CLOSED",
   failure_count |-> 0,
   success_count |-> 0,
   last_failure_time |-> NoTime,
   half_open_calls |-> 0,
   metrics |-> ErrorMetrics]

\* mutant: the timeout test is strict (> for >=)
should_attempt_reset_strict(cb, t) ==
  /\ cb.last_failure_time # NoTime
  /\ t - cb.last_failure_time > cb.config.recovery_timeout

\* mutant: the reset is attempted as soon as a failure has been recorded
should_attempt_reset_ignores_timeout(cb, t) ==
  cb.last_failure_time # NoTime

should_attempt_reset(cb, t) ==
  /\ cb.last_failure_time # NoTime
  /\ t - cb.last_failure_time >= cb.config.recovery_timeout

\* mutant: half_open_calls is incremented before the limit is tested
call_gate_count_first(cb, t) ==
  IF cb.state = "OPEN" /\ ~should_attempt_reset(cb, t)
  THEN [cb |-> cb, admitted |-> FALSE]
  ELSE LET cb1 == IF cb.state = "OPEN"
                  THEN [cb EXCEPT !.state = "HALF_OPEN", !.half_open_calls = 0]
                  ELSE cb
       IN IF cb1.state = "HALF_OPEN"
          THEN [cb |-> [cb1 EXCEPT !.half_open_calls = @ + 1],
                admitted |-> cb1.half_open_calls < cb1.config.half_open_max_calls]
          ELSE [cb |-> cb1, admitted |-> TRUE]

\* mutant: the half-open limit test is strict (> for >=)
call_gate_strict(cb, t) ==
  IF cb.state = "OPEN" /\ ~should_attempt_reset(cb, t)
  THEN [cb |-> cb, admitted |-> FALSE]
  ELSE LET cb1 == IF cb.state = "OPEN"
                  THEN [cb EXCEPT !.state = "HALF_OPEN", !.half_open_calls = 0]
                  ELSE cb
       IN IF cb1.state = "HALF_OPEN"
          THEN IF cb1.half_open_calls > cb1.config.half_open_max_calls
               THEN [cb |-> cb1, admitted |-> FALSE]
               ELSE [cb |-> [cb1 EXCEPT !.half_open_calls = @ + 1],
                     admitted |-> TRUE]
          ELSE [cb |-> cb1, admitted |-> TRUE]

\* mutant: the else branch that raises at an OPEN breaker is missing
call_gate_no_raise(cb, t) ==
  LET cb1 == IF cb.state = "OPEN" /\ should_attempt_reset(cb, t)
             THEN [cb EXCEPT !.state = "HALF_OPEN", !.half_open_calls = 0]
             ELSE cb
  IN IF cb1.state = "HALF_OPEN"
     THEN IF cb1.half_open_calls >= cb1.config.half_open_max_calls
          THEN [cb |-> cb1, admitted |-> FALSE]
          ELSE [cb |-> [cb1 EXCEPT !.half_open_calls = @ + 1],
                admitted |-> TRUE]
     ELSE [cb |-> cb1, admitted |-> TRUE]

\* The part of CircuitBreaker.call before the operation is awaited: the
\* breaker after the gate, and whether the operation is invoked (admitted)
\* or CircuitBreakerOpenError is raised.
call_gate(cb, t) ==
  IF cb.state = "OPEN" /\ ~should_attempt_reset(cb, t)
  THEN [cb |-> cb, admitted |-> FALSE]
  ELSE LET cb1 == IF cb.state = "OPEN"
                  THEN [cb EXCEPT !.state = "HALF_OPEN", !.half_open_calls = 0]
                  ELSE cb
       IN IF cb1.state = "HALF_OPEN"
          THEN IF cb1.half_open_calls >= cb1.config.half_open_max_calls
               THEN [cb |-> cb1, admitted |-> FALSE]
               ELSE [cb |-> [cb1 EXCEPT !.half_open_calls = @ + 1],
                     admitted |-> TRUE]
          ELSE [cb |-> cb1, admitted |-> TRUE]

\* mutant: a success while CLOSED is counted as a failure
on_success_counts_failure(cb) ==
  LET cb1 ==
        IF cb.state = "HALF_OPEN"
        THEN IF cb.success_count + 1 >= cb.config.success_threshold
             THEN [cb EXCEPT !.state = "CLOSED", !.failure_count = 0,
                             !.success_count = 0]
             ELSE [cb EXCEPT !.success_count = @ + 1]
        ELSE IF cb.state = "CLOSED"
             THEN IF cb.failure_count + 1 >= cb.config.failure_threshold
                  THEN [cb EXCEPT !.failure_count = @ + 1, !.state = "OPEN"]
                  ELSE [cb EXCEPT !.failure_count = @ + 1]
             ELSE cb
  IN [cb1 EXCEPT !.metrics = record_success(@)]

\* mutant: the success threshold test is strict (> for >=)
on_success_strict(cb) ==
  LET cb1 ==
        IF cb.state = "HALF_OPEN"
        THEN IF cb.success_count + 1 > cb.config.success_threshold
             THEN [cb EXCEPT !.state = "CLOSED", !.failure_count = 0,
                             !.success_count = 0]
             ELSE [cb EXCEPT !.success_count = @ + 1]
        ELSE IF cb.state = "CLOSED"
             THEN [cb EXCEPT !.failure_count = Max(0, @ - 1)]
             ELSE cb
  IN [cb1 EXCEPT !.metrics = record_success(@)]

\* mutant: a success while CLOSED resets failure_count to 0
on_success_hard_reset(cb) ==
  LET cb1 ==
        IF cb.state = "HALF_OPEN"
        THEN IF cb.success_count + 1 >= cb.config.success_threshold
             THEN [cb EXCEPT !.state = "CLOSED", !.failure_count = 0,
                             !.success_count = 0]
             ELSE [cb EXCEPT !.success_count = @ + 1]
        ELSE IF cb.state = "CLOSED"
             THEN [cb EXCEPT !.failure_count = 0]
             ELSE cb
  IN [cb1 EXCEPT !.metrics = record_success(@)]

\* mutant: closing the breaker keeps failure_count
on_success_keeps_failures(cb) ==
  LET cb1 ==
        IF cb.state = "HALF_OPEN"
        THEN IF cb.success_count + 1 >= cb.config.success_threshold
             THEN [cb EXCEPT !.state = "CLOSED", !.success_count = 0]
             ELSE [cb EXCEPT !.success_count = @ + 1]
        ELSE IF cb.state = "CLOSED"
             THEN [cb EXCEPT !.failure_count = Max(0, @ - 1)]
             ELSE cb
  IN [cb1 EXCEPT !.metrics = record_success(@)]

on_success(cb) ==
  LET cb1 ==
        IF cb.state = "HALF_OPEN"
        THEN IF cb.success_count + 1 >= cb.config.success_threshold
             THEN [cb EXCEPT !.state = "CLOSED", !.failure_count = 0,
                             !.success_count = 0]
             ELSE [cb EXCEPT !.success_count = @ + 1]
        ELSE IF cb.state = "CLOSED"
             THEN [cb EXCEPT !.failure_count = Max(0, @ - 1)]
             ELSE cb
  IN [cb1 EXCEPT !.metrics = record_success(@)]

classify_error(error_type) ==
  IF error_type \in {"ConnectionError", "TimeoutError", "CircuitBreakerOpenError"}
  THEN "CRITICAL"
  ELSE IF error_type \in {"APIError", "AuthenticationError", "RateLimitError"}
  THEN "HIGH"
  ELSE IF error_type \in {"ValidationError", "NotFoundError"}
  THEN "MEDIUM"
  ELSE "LOW"

\* mutant: the failure threshold test is strict (> for >=)
on_failure_strict(cb, error_type, t) ==
  LET cb1 == [cb EXCEPT !.failure_count = @ + 1,
                        !.last_failure_time = t,
                        !.metrics = record_error(@, error_type,
                                                 classify_error(error_type), t)]
  IN IF cb1.state = "HALF_OPEN"
     THEN [cb1 EXCEPT !.state = "OPEN", !.success_count = 0]
     ELSE IF cb1.state = "CLOSED"
             /\ cb1.failure_count > cb1.config.failure_threshold
          THEN [cb1 EXCEPT !.state = "OPEN"]
          ELSE cb1

\* mutant: a failure while HALF_OPEN does not reset success_count
on_failure_keeps_success_count(cb, error_type, t) ==
  LET cb1 == [cb EXCEPT !.failure_count = @ + 1,
                        !.last_failure_time = t,
                        !.metrics = record_error(@, error_type,
                                                 classify_error(error_type), t)]
  IN IF cb1.state = "HALF_OPEN"
     THEN [cb1 EXCEPT !.state = "OPEN"]
     ELSE IF cb1.state = "CLOSED"
             /\ cb1.failure_count >= cb1.config.failure_threshold
          THEN [cb1 EXCEPT !.state = "OPEN"]
          ELSE cb1

on_failure(cb, error_type, t) ==
  LET cb1 == [cb EXCEPT !.failure_count = @ + 1,
                        !.last_failure_time = t,
                        !.metrics = record_error(@, error_type,
                                                 classify_error(error_type), t)]
  IN IF cb1.state = "HALF_OPEN"
     THEN [cb1 EXCEPT !.state = "OPEN", !.success_count = 0]
     ELSE IF cb1.state = "CLOSED"
             /\ cb1.failure_count >= cb1.config.failure_threshold
          THEN [cb1 EXCEPT !.state = "OPEN"]
          ELSE cb1

\* ------------------------------------------------------------- RetryPolicy
RetryPolicy(ma, bd, md, bf, j) ==
  [max_attempts |-> ma, base_delay |-> bd, max_delay |-> md,
   backoff_factor |-> bf, jitter |-> j]

\* The loop going one attempt past max_attempts.
last_attempt_late(p, attempt) == attempt = p.max_attempts + 1

\* mutant: the final attempt is taken one attempt early
last_attempt_early(p, attempt) == attempt >= p.max_attempts - 1

\* execute's test for the final attempt
last_attempt(p, attempt) == attempt = p.max_attempts

RECURSIVE Pow(_, _)
Pow(b, n) == IF n <= 0 THEN 1 ELSE b * Pow(b, n - 1)

\* get_delay with the exponent one too high.
get_delay_exponent_attempt(p, attempt) ==
  LET delay == Min(p.base_delay * Pow(p.backoff_factor, attempt), p.max_delay)
  IN IF p.jitter
     THEN {d \in 0..delay : 2 * d >= delay}
     ELSE {delay}

\* The delays get_delay(attempt) can return, in clock ticks.  Without jitter
\* there is one; with jitter the factor 0.5 + random()*0.5 gives any delay
\* from half of it up to it.
get_delay(p, attempt) ==
  LET delay == Min(p.base_delay * Pow(p.backoff_factor, attempt - 1), p.max_delay)
  IN IF p.jitter
     THEN {d \in 0..delay : 2 * d >= delay}
     ELSE {delay}

\* ------------------------------------------------------------------- state
VARIABLES
  circuit_breakers,  \* ErrorRecoveryManager.circuit_breakers: name -> breaker
  retry_policies,    \* ErrorRecoveryManager.retry_policies: name -> policy
  now,               \* datetime.now(), in clock ticks
  calls,             \* execute_with_protection calls made so far
  pc,                \* per task: "idle", "running" (operation awaited), "sleeping"
  frame,             \* per task: the locals of its execute_with_protection call
  hist,              \* per task: what its current call has done so far
  ev,                \* the step just taken: the breakers before it and, when
                     \* it ended a call, the call's result and history
  hStreak,           \* failures recorded in a row since CLOSED with failure_count 0
  hEpisode,          \* admissions and successes of the current HALF_OPEN episode
  models,            \* OpenRouterModelManager.models, in insertion order
  rate_limit_tracker,        \* OpenRouterModelManager.rate_limit_tracker
  last_discovery,            \* OpenRouterModelManager.last_discovery
  circuit_breaker_threshold, \* OpenRouterModelManager.circuit_breaker_threshold
  local,             \* per task: the locals of its suspended manager call
  recovery_strategies,       \* ErrorRecoveryManager.recovery_strategies
  hRegistered        \* the register_recovery_strategy calls made, in order

vars == <<circuit_breakers, retry_policies, now, calls, pc, frame, hist, ev,
          hStreak, hEpisode, models, rate_limit_tracker, last_discovery,
          circuit_breaker_threshold, local, recovery_strategies,
          hRegistered>>

\* The state of the model manager, and the state of the error recovery
\* manager that the model manager's operations leave alone
managerVars == <<models, rate_limit_tracker, last_discovery,
                 circuit_breaker_threshold, local>>
recoveryVars == <<circuit_breakers, retry_policies, frame, hist, hStreak,
                  hEpisode, recovery_strategies, hRegistered>>

\* No model manager has been constructed.
NoManager ==
  /\ models = << >>
  /\ rate_limit_tracker = << >>
  /\ last_discovery = NoTime
  /\ circuit_breaker_threshold = 0
  /\ local = << >>

NoFrame ==
  [circuit_breaker_name |-> NoName, retry_policy_name |-> NoName,
   attempt |-> 0, last_exception |-> NoName, wake_at |-> 0]
NoResult == [kind |-> "none", value |-> NoName]
NoHist == [func_calls |-> 0, invocations |-> 0, waits |-> 0, fails |-> 0,
           rejects |-> 0]
\* trials: the tasks whose call in flight was admitted as a trial of the
\* current HALF_OPEN episode
NoEpisode == [arrivals |-> 0, admitted |-> 0, successes |-> 0, trials |-> {}]

Event(op, c, f, invoked, value, res, h) ==
  [op |-> op, c |-> c, frame |-> f, pre |-> circuit_breakers,
   invoked |-> invoked, value |-> value, result |-> res, hist |-> h]

\* execute_with_protection's test for a registered retry policy, and
\* _execute_with_circuit_breaker's test for a registered breaker
HasRetry(f) ==
  f.retry_policy_name # NoName /\ f.retry_policy_name \in DOMAIN retry_policies
HasBreaker(f) ==
  f.circuit_breaker_name # NoName
  /\ f.circuit_breaker_name \in DOMAIN circuit_breakers

InFlight(name) ==
  {c \in Callers : pc[c] = "running" /\ frame[c].circuit_breaker_name = name}

\* ErrorRecoveryManager() with one breaker registered, of any configuration
\* within the bounds, and the retry policies pols
Registered(pols) ==
  /\ \E ft \in 1..MaxThreshold, st \in 1..MaxThreshold, hm \in 1..MaxThreshold,
        rt \in 1..MaxRecoveryTimeout :
       circuit_breakers =
         [n \in {BreakerName} |-> CircuitBreaker(CircuitBreakerConfig(ft, rt, st, hm))]
  /\ retry_policies = pols
  /\ now = 0
  /\ calls = 0
  /\ pc = [c \in Callers |-> "idle"]
  /\ frame = [c \in Callers |-> NoFrame]
  /\ hist = [c \in Callers |-> NoHist]
  /\ ev = Event("init", 0, NoFrame, FALSE, NoName, NoResult, NoHist)
  /\ hStreak = 0
  /\ hEpisode = NoEpisode
  /\ recovery_strategies = << >>
  /\ hRegistered = << >>
  /\ NoManager

\* Tasks that share the breaker and call CircuitBreaker.call themselves
Init == Registered(<< >>)

\* A task that goes through execute_with_protection, a retry policy registered
InitProtect ==
  \E ma \in 1..MaxAttempts, j \in BOOLEAN :
    Registered([n \in {PolicyName} |-> RetryPolicy(ma, 1, 2, 2, j)])

\* ------------------------------------------------------- history variables
StreakAfter(op, pre, name) ==
  IF name = NoName THEN hStreak
  ELSE IF op = "success" THEN 0
  ELSE IF op = "failure"
       THEN IF pre[name].state = "CLOSED" /\ pre[name].failure_count = 0
            THEN 1
            ELSE IF hStreak > 0 /\ hStreak < pre[name].config.failure_threshold
                 THEN hStreak + 1
                 ELSE 0
       ELSE hStreak

EpisodeAfter(op, pre, post, name, c) ==
  IF name = NoName THEN hEpisode
  ELSE IF op \in {"admit", "reject"}
       THEN IF pre[name].state = "OPEN" /\ post[name].state = "HALF_OPEN"
            THEN [arrivals |-> 1, admitted |-> IF op = "admit" THEN 1 ELSE 0,
                  successes |-> 0,
                  trials |-> IF op = "admit" THEN {c} ELSE {}]
            ELSE IF pre[name].state = "HALF_OPEN"
                 THEN [hEpisode EXCEPT !.arrivals = @ + 1,
                                       !.admitted = IF op = "admit" THEN @ + 1 ELSE @,
                                       !.trials = IF op = "admit"
                                                  THEN @ \cup {c} ELSE @]
                 ELSE IF op = "admit"
                      THEN [hEpisode EXCEPT !.trials = @ \ {c}]
                      ELSE hEpisode
       ELSE IF op = "success" /\ pre[name].state = "HALF_OPEN"
            THEN [hEpisode EXCEPT !.successes = @ + 1]
            ELSE hEpisode

\* --------------------------------------------- RetryPolicy.execute, one turn
\* execute giving up at once on a rejection by the open breaker.
Resolve_open_not_retried(c, f, h, cbs, op, outcome, value) ==
  LET name == IF HasBreaker(f) THEN f.circuit_breaker_name ELSE NoName
      retry == HasRetry(f)
      p == retry_policies[f.retry_policy_name]
      final == \/ ~retry
               \/ last_attempt(p, f.attempt)
               \/ value = CircuitBreakerOpenError
  IN /\ circuit_breakers' = cbs
     /\ hStreak' = StreakAfter(op, circuit_breakers, name)
     /\ hEpisode' = EpisodeAfter(op, circuit_breakers, cbs, name, c)
     /\ UNCHANGED <<retry_policies, now, managerVars,
                 recovery_strategies, hRegistered>>
     /\ CASE outcome = "pending" ->
               /\ pc' = [pc EXCEPT ![c] = "running"]
               /\ frame' = [frame EXCEPT ![c] = f]
               /\ hist' = [hist EXCEPT ![c] = h]
               /\ ev' = Event(op, c, f, TRUE, value, NoResult, h)
          [] outcome = "ok" ->
               /\ pc' = [pc EXCEPT ![c] = "idle"]
               /\ frame' = [frame EXCEPT ![c] = NoFrame]
               /\ hist' = [hist EXCEPT ![c] = NoHist]
               /\ ev' = Event(op, c, f, FALSE, value,
                              [kind |-> "return", value |-> value], h)
          [] outcome = "err" /\ final ->
               /\ pc' = [pc EXCEPT ![c] = "idle"]
               /\ frame' = [frame EXCEPT ![c] = NoFrame]
               /\ hist' = [hist EXCEPT ![c] = NoHist]
               /\ ev' = Event(op, c, f, FALSE, value,
                              [kind |-> "raise", value |-> value], h)
          [] outcome = "err" /\ ~final ->
               \E d \in get_delay(p, f.attempt) :
                 LET h1 == [h EXCEPT !.waits = @ + 1]
                 IN /\ pc' = [pc EXCEPT ![c] = "sleeping"]
                    /\ frame' = [frame EXCEPT ![c] =
                                   [f EXCEPT !.last_exception = value,
                                             !.wake_at = now + d]]
                    /\ hist' = [hist EXCEPT ![c] = h1]
                    /\ ev' = Event(op, c, f, FALSE, value, NoResult, h1)

\* Task c's call continues after a step of kind op that left the breakers
\* as cbs, with frame f and history h:
\*   outcome "pending": the operation was invoked and is now awaited;
\*   outcome "ok":      func returned value, which execute returns;
\*   outcome "err":     func raised value: execute sleeps get_delay(attempt)
\*                      before the next attempt, or raises after the last
\*                      one; without a retry policy the error propagates.
Resolve(c, f, h, cbs, op, outcome, value) ==
  LET name == IF HasBreaker(f) THEN f.circuit_breaker_name ELSE NoName
      retry == HasRetry(f)
      p == retry_policies[f.retry_policy_name]
      final == ~retry \/ last_attempt(p, f.attempt)
  IN /\ circuit_breakers' = cbs
     /\ hStreak' = StreakAfter(op, circuit_breakers, name)
     /\ hEpisode' = EpisodeAfter(op, circuit_breakers, cbs, name, c)
     /\ UNCHANGED <<retry_policies, now, managerVars,
                 recovery_strategies, hRegistered>>
     /\ CASE outcome = "pending" ->
               /\ pc' = [pc EXCEPT ![c] = "running"]
               /\ frame' = [frame EXCEPT ![c] = f]
               /\ hist' = [hist EXCEPT ![c] = h]
               /\ ev' = Event(op, c, f, TRUE, value, NoResult, h)
          [] outcome = "ok" ->
               /\ pc' = [pc EXCEPT ![c] = "idle"]
               /\ frame' = [frame EXCEPT ![c] = NoFrame]
               /\ hist' = [hist EXCEPT ![c] = NoHist]
               /\ ev' = Event(op, c, f, FALSE, value,
                              [kind |-> "return", value |-> value], h)
          [] outcome = "err" /\ final ->
               /\ pc' = [pc EXCEPT ![c] = "idle"]
               /\ frame' = [frame EXCEPT ![c] = NoFrame]
               /\ hist' = [hist EXCEPT ![c] = NoHist]
               /\ ev' = Event(op, c, f, FALSE, value,
                              [kind |-> "raise", value |-> value], h)
          [] outcome = "err" /\ ~final ->
               \E d \in get_delay(p, f.attempt) :
                 LET h1 == [h EXCEPT !.waits = @ + 1]
                 IN /\ pc' = [pc EXCEPT ![c] = "sleeping"]
                    /\ frame' = [frame EXCEPT ![c] =
                                   [f EXCEPT !.last_exception = value,
                                             !.wake_at = now + d]]
                    /\ hist' = [hist EXCEPT ![c] = h1]
                    /\ ev' = Event(op, c, f, FALSE, value, NoResult, h1)

\* mutant: a breaker name that is not registered is gated by the
\* registered breaker
Attempt_gates_unregistered(c, f, h) ==
  LET h1 == [h EXCEPT !.func_calls = @ + 1]
  IN IF f.circuit_breaker_name # NoName
     THEN LET n == BreakerName
              g == call_gate(circuit_breakers[n], now)
              cbs == [circuit_breakers EXCEPT ![n] = g.cb]
          IN IF g.admitted
             THEN Resolve(c, f, [h1 EXCEPT !.invocations = @ + 1], cbs,
                          "admit", "pending", NoName)
             ELSE Resolve(c, f, [h1 EXCEPT !.rejects = @ + 1, !.fails = @ + 1],
                          cbs, "reject", "err", CircuitBreakerOpenError)
     ELSE Resolve(c, f, [h1 EXCEPT !.invocations = @ + 1], circuit_breakers,
                  "invoke", "pending", NoName)

\* One invocation of func by task c, up to the await of the operation:
\* _execute_with_circuit_breaker, and CircuitBreaker.call's gate when the
\* breaker name is registered.
Attempt(c, f, h) ==
  LET h1 == [h EXCEPT !.func_calls = @ + 1]
  IN IF HasBreaker(f)
     THEN LET n == f.circuit_breaker_name
              g == call_gate(circuit_breakers[n], now)
              cbs == [circuit_breakers EXCEPT ![n] = g.cb]
          IN IF g.admitted
             THEN Resolve(c, f, [h1 EXCEPT !.invocations = @ + 1], cbs,
                          "admit", "pending", NoName)
             ELSE Resolve(c, f, [h1 EXCEPT !.rejects = @ + 1, !.fails = @ + 1],
                          cbs, "reject", "err", CircuitBreakerOpenError)
     ELSE Resolve(c, f, [h1 EXCEPT !.invocations = @ + 1], circuit_breakers,
                  "invoke", "pending", NoName)

\* ----------------------------------------------------------------- actions
\* A task calls CircuitBreaker.call(func) on the registered breaker.
Call(c) ==
  /\ pc[c] = "idle"
  /\ calls < MaxCalls
  /\ calls' = calls + 1
  /\ Attempt(c, [NoFrame EXCEPT !.circuit_breaker_name = BreakerName,
                                !.attempt = 1], NoHist)

\* A task calls execute_with_protection(func, circuit_breaker_name,
\* retry_policy_name); it runs to the first await that suspends.
Protect(c) ==
  /\ pc[c] = "idle"
  /\ calls < MaxCalls
  /\ calls' = calls + 1
  /\ \E bn \in {BreakerName, UnknownName}, rn \in {PolicyName, UnknownName} :
       Attempt(c, [NoFrame EXCEPT !.circuit_breaker_name = bn,
                                  !.retry_policy_name = rn,
                                  !.attempt = 1], NoHist)

\* The awaited operation of task c returns a value or raises an error; the
\* breaker records it (_on_success / _on_failure) and execute goes on.
OpReturn(c, errors) ==
  /\ pc[c] = "running"
  /\ UNCHANGED calls
  /\ LET f == frame[c]
         n == f.circuit_breaker_name
     IN \/ \E v \in OpValues :
             Resolve(c, f, hist[c],
                     IF HasBreaker(f)
                     THEN [circuit_breakers EXCEPT ![n] = on_success(@)]
                     ELSE circuit_breakers,
                     "success", "ok", v)
        \/ \E e \in errors :
             Resolve(c, f, [hist[c] EXCEPT !.fails = @ + 1],
                     IF HasBreaker(f)
                     THEN [circuit_breakers EXCEPT ![n] = on_failure(@, e, now)]
                     ELSE circuit_breakers,
                     "failure", "err", e)

\* asyncio.sleep(delay) is over: the retry loop makes its next attempt.
Wake(c) ==
  /\ pc[c] = "sleeping"
  /\ now >= frame[c].wake_at
  /\ UNCHANGED calls
  /\ Attempt(c, [frame[c] EXCEPT !.attempt = @ + 1], hist[c])

\* The clock advances.
Tick ==
  /\ now < MaxTime
  /\ now' = now + 1
  /\ ev' = Event("tick", 0, NoFrame, FALSE, NoName, NoResult, NoHist)
  /\ UNCHANGED <<circuit_breakers, retry_policies, calls, pc, frame, hist,
                 hStreak, hEpisode, managerVars,
                 recovery_strategies, hRegistered>>

Next ==
  \/ \E c \in Callers : Call(c)
  \/ \E c \in Callers : OpReturn(c, OpErrors)
  \/ Tick

Spec == Init /\ [][Next]_vars

\* Tasks that share a breaker whose failure_threshold leaves room for more
\* than one failure while it stays CLOSED
InitDecay ==
  /\ \E st \in 1..MaxThreshold, hm \in 1..MaxThreshold,
        rt \in 1..MaxRecoveryTimeout :
       circuit_breakers =
         [n \in {BreakerName} |->
            CircuitBreaker(CircuitBreakerConfig(MaxThreshold + 1, rt, st, hm))]
  /\ retry_policies = << >>
  /\ now = 0
  /\ calls = 0
  /\ pc = [c \in Callers |-> "idle"]
  /\ frame = [c \in Callers |-> NoFrame]
  /\ hist = [c \in Callers |-> NoHist]
  /\ ev = Event("init", 0, NoFrame, FALSE, NoName, NoResult, NoHist)
  /\ hStreak = 0
  /\ hEpisode = NoEpisode
  /\ recovery_strategies = << >>
  /\ hRegistered = << >>
  /\ NoManager

SpecDecay == InitDecay /\ [][Next]_vars

\* main(): one task makes its protected calls of example_failing_service
\* one after the other
MainTask == CHOOSE c \in Callers : \A d \in Callers : c <= d

NextProtect ==
  \/ Protect(MainTask)
  \/ OpReturn(MainTask, ServiceErrors)
  \/ Wake(MainTask)
  \/ Tick

SpecProtect == InitProtect /\ [][NextProtect]_vars

\* The cancellation delivered as an ordinary error of the awaited operation,
\* which the retry loop's except clause would catch.
Cancel_caught(c) ==
  /\ pc[c] \in {"running", "sleeping"}
  /\ UNCHANGED calls
  /\ IF pc[c] = "running"
     THEN Resolve(c, frame[c], [hist[c] EXCEPT !.fails = @ + 1],
                  circuit_breakers, "cancel_op", "err", CancelledError)
     ELSE /\ pc' = [pc EXCEPT ![c] = "idle"]
          /\ frame' = [frame EXCEPT ![c] = NoFrame]
          /\ hist' = [hist EXCEPT ![c] = NoHist]
          /\ ev' = Event("cancel_sleep", c, frame[c], FALSE, CancelledError,
                         [kind |-> "raise", value |-> CancelledError], hist[c])
          /\ UNCHANGED <<circuit_breakers, retry_policies, now, hStreak,
                         hEpisode, managerVars,
                 recovery_strategies, hRegistered>>

\* The caller cancels the task of a call that is suspended in
\* "await func(...)" or in "await asyncio.sleep(delay)": asyncio raises
\* CancelledError at that await. CancelledError is not an Exception, so
\* neither "except Exception" clause (CircuitBreaker.call, RetryPolicy.execute)
\* catches it, and the sleep is awaited outside the try block: the error
\* leaves execute, the breaker records nothing.
Cancel(c) ==
  /\ pc[c] \in {"running", "sleeping"}
  /\ pc' = [pc EXCEPT ![c] = "idle"]
  /\ frame' = [frame EXCEPT ![c] = NoFrame]
  /\ hist' = [hist EXCEPT ![c] = NoHist]
  /\ ev' = Event(IF pc[c] = "running" THEN "cancel_op" ELSE "cancel_sleep",
                 c, frame[c], FALSE, CancelledError,
                 [kind |-> "raise", value |-> CancelledError], hist[c])
  /\ UNCHANGED <<circuit_breakers, retry_policies, now, calls, hStreak,
                 hEpisode, managerVars,
                 recovery_strategies, hRegistered>>

NextCancel ==
  \/ NextProtect
  \/ Cancel(MainTask)

SpecCancel == InitProtect /\ [][NextCancel]_vars

\* -------------------------------------------------- get_delay on its own
\* A retry policy built with any base delay, backoff factor, delay cap and
\* jitter setting within the bounds; nothing else is running.
InitDelay ==
  /\ \E bd \in 1..MaxBaseDelay, bf \in 1..MaxBackoff, md \in 1..MaxDelayCap,
        j \in BOOLEAN :
       retry_policies =
         [n \in {PolicyName} |-> RetryPolicy(MaxAttempts, bd, md, bf, j)]
  /\ circuit_breakers = << >>
  /\ now = 0
  /\ calls = 0
  /\ pc = [c \in Callers |-> "idle"]
  /\ frame = [c \in Callers |-> NoFrame]
  /\ hist = [c \in Callers |-> NoHist]
  /\ ev = [op |-> "init", attempt |-> 0, delay |-> 0]
  /\ hStreak = 0
  /\ hEpisode = NoEpisode
  /\ recovery_strategies = << >>
  /\ hRegistered = << >>
  /\ NoManager

\* get_delay(attempt) is called for some attempt number and returns a delay.
GetDelay ==
  \E attempt \in 1..(MaxAttempts + 1) :
    \E delay \in get_delay(retry_policies[PolicyName], attempt) :
      /\ ev' = [op |-> "get_delay", attempt |-> attempt, delay |-> delay]
      /\ UNCHANGED <<circuit_breakers, retry_policies, now, calls, pc, frame,
                     hist, hStreak, hEpisode, managerVars,
                 recovery_strategies, hRegistered>>

NextDelay == GetDelay

SpecDelay == InitDelay /\ [][NextDelay]_vars

\* ================================================= OpenRouterModelManager
\* Times are clock ticks of one minute.  Fractions (error rate, response
\* times in seconds, scores) are exact: a fraction is [num, den] in lowest
\* terms with den > 0.
RECURSIVE GCD(_, _)
GCD(a, b) == IF b = 0 THEN a ELSE GCD(b, a % b)

Abs(n) == IF n < 0 THEN -n ELSE n

Frac(n, d) ==
  LET g == GCD(Abs(n), d)
  IN IF n = 0 THEN [num |-> 0, den |-> 1] ELSE [num |-> n \div g, den |-> d \div g]

FAdd(a, b) == Frac(a.num * b.den + b.num * a.den, a.den * b.den)
FSub(a, b) == Frac(a.num * b.den - b.num * a.den, a.den * b.den)
FMul(a, b) == Frac(a.num * b.num, a.den * b.den)
FLeq(a, b) == a.num * b.den <= b.num * a.den
FLess(a, b) == a.num * b.den < b.num * a.den
FMin(a, b) == IF FLeq(a, b) THEN a ELSE b
FMax(a, b) == IF FLeq(a, b) THEN b ELSE a

ModelStatus == {"AVAILABLE", "UNAVAILABLE", "RATE_LIMITED", "ERROR", "TESTING"}

\* Model identifiers the OpenRouter listing can name
ModelIds == {"m1", "m2"}

\* "None" for an optional number (response_time, rate_limit_rpm)
NoNumber == -1

\* 60 seconds, the rate limit window; 3600 seconds, over which the bonus
\* for a recent success decays; timedelta(hours=1), the discovery interval
RateWindow == 1
ScoreDecay == 60
discovery_interval == 60

\* ModelMetrics(): the metrics of a model nothing was recorded for
ModelMetrics ==
  [total_requests |-> 0, successful_requests |-> 0, failed_requests |-> 0,
   average_response_time |-> Frac(0, 1), last_success |-> NoTime,
   last_failure |-> NoTime, consecutive_failures |-> 0,
   error_rate |-> Frac(0, 1)]

\* ModelMetrics._update_error_rate
update_error_rate(m) ==
  IF m.total_requests > 0
  THEN [m EXCEPT !.error_rate = Frac(m.failed_requests, m.total_requests)]
  ELSE m

\* ModelMetrics.update_success(response_time) at time t
update_success(m, response_time, t) ==
  LET total == m.total_requests + 1
      average == IF total = 1
                 THEN response_time
                 ELSE FMul(FAdd(FMul(m.average_response_time, Frac(total - 1, 1)),
                                response_time),
                           Frac(1, total))
  IN update_error_rate(
       [m EXCEPT !.total_requests = total,
                 !.successful_requests = @ + 1,
                 !.last_success = t,
                 !.consecutive_failures = 0,
                 !.average_response_time = average])

\* mutant: a failure leaves error_rate as it was
update_failure_stale_rate(m, t) ==
  [m EXCEPT !.total_requests = @ + 1,
            !.failed_requests = @ + 1,
            !.last_failure = t,
            !.consecutive_failures = @ + 1]

\* ModelMetrics.update_failure() at time t
update_failure(m, t) ==
  update_error_rate(
    [m EXCEPT !.total_requests = @ + 1,
              !.failed_requests = @ + 1,
              !.last_failure = t,
              !.consecutive_failures = @ + 1])

\* FreeModel(id, ...): a model as the listing describes it
FreeModel(id) ==
  [id |-> id, status |-> "AVAILABLE", metrics |-> ModelMetrics,
   rate_limit_rpm |-> NoNumber]

\* health_score without the test for UNAVAILABLE.
health_score_ignores_status(model, t) ==
  LET m == model.metrics
      success_rate == FSub(Frac(1, 1), m.error_rate)
      failure_penalty == FMin(Frac(1, 2), Frac(m.consecutive_failures, 10))
      time_bonus ==
        IF m.last_success = NoTime
        THEN Frac(0, 1)
        ELSE FMax(Frac(0, 1),
                  FMul(Frac(1, 5),
                       FSub(Frac(1, 1), Frac(t - m.last_success, ScoreDecay))))
      speed_penalty ==
        FMin(Frac(3, 10),
             FMax(Frac(0, 1),
                  FMul(FSub(m.average_response_time, Frac(2, 1)), Frac(1, 10))))
      score == FSub(FAdd(FSub(success_rate, failure_penalty), time_bonus),
                    speed_penalty)
  IN FMax(Frac(0, 1), FMin(Frac(1, 1), score))

\* health_score with the penalty for slow responses not capped at 0.3.
health_score_speed_uncapped(model, t) ==
  IF model.status = "UNAVAILABLE"
  THEN Frac(0, 1)
  ELSE LET m == model.metrics
           success_rate == FSub(Frac(1, 1), m.error_rate)
           failure_penalty == FMin(Frac(1, 2), Frac(m.consecutive_failures, 10))
           time_bonus ==
             IF m.last_success = NoTime
             THEN Frac(0, 1)
             ELSE FMax(Frac(0, 1),
                       FMul(Frac(1, 5),
                            FSub(Frac(1, 1), Frac(t - m.last_success, ScoreDecay))))
           speed_penalty ==
             FMax(Frac(0, 1),
                  FMul(FSub(m.average_response_time, Frac(2, 1)), Frac(1, 10)))
           score == FSub(FAdd(FSub(success_rate, failure_penalty), time_bonus),
                         speed_penalty)
       IN FMax(Frac(0, 1), FMin(Frac(1, 1), score))

\* FreeModel.health_score, read at time t
health_score(model, t) ==
  IF model.status = "UNAVAILABLE"
  THEN Frac(0, 1)
  ELSE LET m == model.metrics
           success_rate == FSub(Frac(1, 1), m.error_rate)
           failure_penalty == FMin(Frac(1, 2), Frac(m.consecutive_failures, 10))
           time_bonus ==
             IF m.last_success = NoTime
             THEN Frac(0, 1)
             ELSE FMax(Frac(0, 1),
                       FMul(Frac(1, 5),
                            FSub(Frac(1, 1), Frac(t - m.last_success, ScoreDecay))))
           speed_penalty ==
             FMin(Frac(3, 10),
                  FMax(Frac(0, 1),
                       FMul(FSub(m.average_response_time, Frac(2, 1)), Frac(1, 10))))
           score == FSub(FAdd(FSub(success_rate, failure_penalty), time_bonus),
                         speed_penalty)
       IN FMax(Frac(0, 1), FMin(Frac(1, 1), score))

\* ------------------------------------------------ health_score on its own
\* One model whose metrics are what update_success and update_failure can
\* have left: any counts within the bounds, the error rate that goes with
\* them, any run of consecutive failures, any average response time
\* (whole seconds), a last success of any age when there was a success.
InitScore ==
  /\ \E total \in 0..MaxRequests, status \in ModelStatus :
       \E failed \in 0..total :
         \E cf \in 0..Min(failed, MaxFailures),
            art \in IF failed = total THEN {0} ELSE 0..MaxResponseTime,
            age \in IF failed = total
                    THEN {0}
                    ELSE {0, ScoreDecay \div 2, ScoreDecay, ScoreDecay + 1} :
           /\ models =
                << [FreeModel("m1") EXCEPT
                      !.status = status,
                      !.metrics = update_error_rate(
                         [ModelMetrics EXCEPT
                            !.total_requests = total,
                            !.successful_requests = total - failed,
                            !.failed_requests = failed,
                            !.consecutive_failures = cf,
                            !.average_response_time = Frac(art, 1),
                            !.last_success = IF failed = total THEN NoTime ELSE 0,
                            !.last_failure = IF failed = 0 THEN NoTime ELSE 0])] >>
           /\ now = age
  /\ rate_limit_tracker = << >>
  /\ last_discovery = NoTime
  /\ circuit_breaker_threshold = 0
  /\ local = << >>
  /\ circuit_breakers = << >>
  /\ retry_policies = << >>
  /\ calls = 0
  /\ pc = [c \in Callers |-> "idle"]
  /\ frame = [c \in Callers |-> NoFrame]
  /\ hist = [c \in Callers |-> NoHist]
  /\ ev = [op |-> "init", model |-> FreeModel("m1"), score |-> Frac(0, 1)]
  /\ hStreak = 0
  /\ hEpisode = NoEpisode
  /\ recovery_strategies = << >>
  /\ hRegistered = << >>

\* The health_score property of the model is read.
HealthScore ==
  /\ ev' = [op |-> "health_score", model |-> models[1],
            score |-> health_score(models[1], now)]
  /\ UNCHANGED <<now, calls, pc, recoveryVars, managerVars>>

NextScore == HealthScore

SpecScore == InitScore /\ [][NextScore]_vars

\* ------------------------------------------------ the manager's operations
\* self.models is a dict: a sequence of models in insertion order, at most
\* one per id.  Position of the model with this id, 0 when it is not known.
Position(ms, id) ==
  IF \E i \in 1..Len(ms) : ms[i].id = id
  THEN CHOOSE i \in 1..Len(ms) : ms[i].id = id
  ELSE 0

\* "self.models[model.id] = model": a known id keeps its place in the dict
\* and gets the new object, a new id goes last.
put_model(ms, model) ==
  IF Position(ms, model.id) = 0
  THEN Append(ms, model)
  ELSE [ms EXCEPT ![Position(ms, model.id)] = model]

\* discover_free_models once the listing has arrived: every free model
\* listed is stored as a fresh FreeModel.
RECURSIVE store_listing(_, _)
store_listing(ms, listed) ==
  IF listed = << >>
  THEN ms
  ELSE store_listing(put_model(ms, FreeModel(Head(listed))), Tail(listed))

\* The listings the service can answer with: the free models among its
\* catalogue, in catalogue order
Catalogue == <<"m1", "m2">>
Listings ==
  {SelectSeq(Catalogue, LAMBDA id : id \in free) : free \in SUBSET ModelIds}

\* What a request for the listing can end in: the listing stored whole and
\* last_discovery set, or a failure (a status other than 200, an exception)
\* that stores nothing
DiscoveryOutcomes ==
  {[listed |-> listed, complete |-> TRUE] : listed \in Listings}
    \cup {[listed |-> << >>, complete |-> FALSE]}

\* _refresh_if_needed's test
refresh_needed(last, t) ==
  last = NoTime \/ t - last > discovery_interval

\* mutant: only UNAVAILABLE models are filtered out
available_models_not_unavailable(ms, exclude_models) ==
  SelectSeq(ms, LAMBDA m : /\ m.status # "UNAVAILABLE"
                           /\ (exclude_models = {} \/ m.id \notin exclude_models))

\* get_best_model's filter: the models a selection may return
available_models(ms, exclude_models) ==
  SelectSeq(ms, LAMBDA m : /\ m.status = "AVAILABLE"
                           /\ (exclude_models = {} \/ m.id \notin exclude_models))

\* The selection taking the last of the models with the highest score.
best_model_last_of_ties(ms, exclude_models, t) ==
  LET av == available_models(ms, exclude_models)
  IN IF av = << >>
     THEN NoName
     ELSE av[CHOOSE i \in 1..Len(av) :
               /\ \A j \in 1..Len(av) :
                    FLeq(health_score(av[j], t), health_score(av[i], t))
               /\ \A j \in (i + 1)..Len(av) :
                    FLess(health_score(av[j], t), health_score(av[i], t))].id

\* The selection without the test of the status.
best_model_any_status(ms, exclude_models, t) ==
  LET av == SelectSeq(ms, LAMBDA m : exclude_models = {} \/ m.id \notin exclude_models)
  IN IF av = << >>
     THEN NoName
     ELSE av[CHOOSE i \in 1..Len(av) :
               /\ \A j \in 1..Len(av) :
                    FLeq(health_score(av[j], t), health_score(av[i], t))
               /\ \A j \in 1..(i - 1) :
                    FLess(health_score(av[j], t), health_score(av[i], t))].id

\* get_best_model after the refresh: max(available_models, key=health_score)
\* is the first model, in dict order, with the highest score; the id of the
\* model returned, NoName for None.
best_model(ms, exclude_models, t) ==
  LET av == available_models(ms, exclude_models)
  IN IF av = << >>
     THEN NoName
     ELSE av[CHOOSE i \in 1..Len(av) :
               /\ \A j \in 1..Len(av) :
                    FLeq(health_score(av[j], t), health_score(av[i], t))
               /\ \A j \in 1..(i - 1) :
                    FLess(health_score(av[j], t), health_score(av[i], t))].id

\* The timestamps kept for an id.  An id that has no entry in the dict gets
\* an empty one wherever the code reads it, so the tracker is a function on
\* all ids, empty for those without requests.
NoRequests == [id \in ModelIds |-> << >>]

tracked(tracker, id) == tracker[id]

\* "self.rate_limit_tracker[model_id] = times"
put_times(tracker, id, times) == [tracker EXCEPT ![id] = times]

\* check_rate_limits' pruning: the timestamps less than 60 seconds old
recent(times, t) ==
  SelectSeq(times, LAMBDA req_time : t - req_time < RateWindow)

\* The check that counts before it prunes.
check_rate_limits_unpruned(ms, tracker, model_id, t) ==
  LET times == recent(tracked(tracker, model_id), t)
      i == Position(ms, model_id)
      limited == /\ i # 0
                 /\ ms[i].rate_limit_rpm # NoNumber
                 /\ ms[i].rate_limit_rpm # 0
                 /\ Len(tracked(tracker, model_id)) >= ms[i].rate_limit_rpm
  IN [models |-> IF limited
                 THEN [ms EXCEPT ![i].status = "RATE_LIMITED"]
                 ELSE ms,
      rate_limit_tracker |-> put_times(tracker, model_id, times),
      ret |-> ~limited]

\* check_rate_limits(model_id) at time t: the models and the tracker it
\* leaves, and what it returns.  "model.rate_limit_rpm" is false for None
\* and for 0.
check_rate_limits(ms, tracker, model_id, t) ==
  LET times == recent(tracked(tracker, model_id), t)
      i == Position(ms, model_id)
      limited == /\ i # 0
                 /\ ms[i].rate_limit_rpm # NoNumber
                 /\ ms[i].rate_limit_rpm # 0
                 /\ Len(times) >= ms[i].rate_limit_rpm
  IN [models |-> IF limited
                 THEN [ms EXCEPT ![i].status = "RATE_LIMITED"]
                 ELSE ms,
      rate_limit_tracker |-> put_times(tracker, model_id, times),
      ret |-> ~limited]

\* The record that trips only above the threshold.
record_request_strict(ms, tracker, threshold, model_id, success, response_time, t) ==
  LET i == Position(ms, model_id)
  IN IF i = 0
     THEN [models |-> ms, rate_limit_tracker |-> tracker]
     ELSE LET times == Append(tracked(tracker, model_id), t)
              ok == success /\ response_time # NoNumber
              metrics == IF ok
                         THEN update_success(ms[i].metrics, Frac(response_time, 1), t)
                         ELSE update_failure(ms[i].metrics, t)
              status == IF ok
                        THEN "AVAILABLE"
                        ELSE IF metrics.consecutive_failures > threshold
                             THEN "UNAVAILABLE"
                             ELSE ms[i].status
          IN [models |-> [ms EXCEPT ![i].metrics = metrics, ![i].status = status],
              rate_limit_tracker |-> put_times(tracker, model_id, times)]

\* record_request(model_id, success, response_time) at time t: the models
\* and the tracker it leaves.
\* mutant: the model is made UNAVAILABLE one failure before the threshold
record_request_trips_early(ms, tracker, threshold, model_id, success, response_time, t) ==
  LET i == Position(ms, model_id)
  IN IF i = 0
     THEN [models |-> ms, rate_limit_tracker |-> tracker]
     ELSE LET times == Append(tracked(tracker, model_id), t)
              ok == success /\ response_time # NoNumber
              metrics == IF ok
                         THEN update_success(ms[i].metrics, Frac(response_time, 1), t)
                         ELSE update_failure(ms[i].metrics, t)
              status == IF ok
                        THEN "AVAILABLE"
                        ELSE IF metrics.consecutive_failures >= threshold - 1
                             THEN "UNAVAILABLE"
                             ELSE ms[i].status
          IN [models |-> [ms EXCEPT ![i].metrics = metrics, ![i].status = status],
              rate_limit_tracker |-> put_times(tracker, model_id, times)]

record_request(ms, tracker, threshold, model_id, success, response_time, t) ==
  LET i == Position(ms, model_id)
  IN IF i = 0
     THEN [models |-> ms, rate_limit_tracker |-> tracker]
     ELSE LET times == Append(tracked(tracker, model_id), t)
              ok == success /\ response_time # NoNumber
              metrics == IF ok
                         THEN update_success(ms[i].metrics, Frac(response_time, 1), t)
                         ELSE update_failure(ms[i].metrics, t)
              status == IF ok
                        THEN "AVAILABLE"
                        ELSE IF metrics.consecutive_failures >= threshold
                             THEN "UNAVAILABLE"
                             ELSE ms[i].status
          IN [models |-> [ms EXCEPT ![i].metrics = metrics, ![i].status = status],
              rate_limit_tracker |-> put_times(tracker, model_id, times)]

\* What the probe of test_model_health can come back with: HTTP 200 after
\* some response time, a status below 500 such as 429, or a status from 500
\* up, a timeout or another exception, which all three set ERROR
ProbeOutcomes == {"200", "429", "500"}

\* mutant: a probe answered below 500 leaves the model AVAILABLE
probe_result_rejected_stays_available(model, outcome, response_time, t) ==
  IF outcome = "200"
  THEN [model EXCEPT !.metrics = update_success(@, Frac(response_time, 1), t),
                     !.status = "AVAILABLE"]
  ELSE [model EXCEPT !.metrics = update_failure(@, t),
                     !.status = IF outcome = "429" THEN "AVAILABLE" ELSE "ERROR"]

\* test_model_health once the probe has come back, for the model object it
\* holds
probe_result(model, outcome, response_time, t) ==
  IF outcome = "200"
  THEN [model EXCEPT !.metrics = update_success(@, Frac(response_time, 1), t),
                     !.status = "AVAILABLE"]
  ELSE [model EXCEPT !.metrics = update_failure(@, t),
                     !.status = IF outcome = "429" THEN "RATE_LIMITED" ELSE "ERROR"]

\* Response times, in whole seconds, that a request or a probe can take
ResponseTimes == {1, 4}

\* The tasks that use the manager: a client of it, and health_check_loop
ManagerTasks == {"client", "health_check"}

NoLocal ==
  [op |-> NoName, exclude_models |-> {}, model_id |-> NoName, orphan |-> FALSE]

\* The step just taken on the manager: the operation, its arguments, what it
\* returned if it returned, and the models and the tracker before it; for a
\* check_rate_limits, admitted counts the checks of this model that returned
\* true in a row up to this one with no other step between them (so at one
\* clock reading), counted up to MaxRpm + 1
NoEvent ==
  [op |-> "init", task |-> NoName, model_id |-> NoName, exclude_models |-> {},
   listed |-> << >>, success |-> FALSE, response_time |-> NoNumber,
   ret |-> NoName, pre |-> << >>, pre_tracker |-> << >>, admitted |-> 0]

ManagerEvent(op, task, model_id) ==
  [NoEvent EXCEPT !.op = op, !.task = task, !.model_id = model_id,
                  !.pre = models, !.pre_tracker = rate_limit_tracker]

\* Models as the user of the manager has declared their capacity:
\* rate_limit_rpm of each is None or a number of requests per minute.
\* Nothing in the manager sets it; a fresh FreeModel has None.
RECURSIVE Declared(_)
Declared(ms) ==
  IF ms = << >>
  THEN {<< >>}
  ELSE {<<[Head(ms) EXCEPT !.rate_limit_rpm = rpm]>> \o rest :
          rpm \in {NoNumber} \cup 1..MaxRpm, rest \in Declared(Tail(ms))}

\* "async with OpenRouterModelManager(api_key) as manager": __aenter__ has
\* opened the session and run the first discovery, which failed or stored
\* the models listed; the user has declared capacities.
\* circuit_breaker_threshold, 5 in __init__, is the bound MaxThreshold.
InitModels ==
  /\ \E outcome \in DiscoveryOutcomes :
       /\ models \in Declared(store_listing(<< >>, outcome.listed))
       /\ last_discovery = IF outcome.complete THEN 0 ELSE NoTime
  /\ rate_limit_tracker = NoRequests
  /\ circuit_breaker_threshold = MaxThreshold
  /\ local = [t \in ManagerTasks |-> NoLocal]
  /\ pc = [t \in ManagerTasks |-> "idle"]
  /\ now = 0
  /\ calls = 0
  /\ ev = NoEvent
  /\ circuit_breakers = << >>
  /\ retry_policies = << >>
  /\ frame = << >>
  /\ hist = << >>
  /\ hStreak = 0
  /\ hEpisode = NoEpisode
  /\ recovery_strategies = << >>
  /\ hRegistered = << >>

\* A call that starts with "await self._refresh_if_needed()": get_best_model
\* (op, exclude_models) or rotate_model (current_model_id).  When no refresh
\* is due nothing suspends and the selection is made at once; otherwise the
\* task waits for the listing.
StartSelection(task, op, current_model_id, exclude_models) ==
  /\ pc[task] = "idle"
  /\ UNCHANGED <<now, models, rate_limit_tracker, last_discovery,
                 circuit_breaker_threshold, recoveryVars>>
  /\ IF refresh_needed(last_discovery, now)
     THEN /\ calls < MaxOps
          /\ calls' = calls + 1
          /\ pc' = [pc EXCEPT ![task] = "discovering"]
          /\ local' = [local EXCEPT ![task] =
                         [NoLocal EXCEPT !.op = op,
                                         !.model_id = current_model_id,
                                         !.exclude_models = exclude_models]]
          /\ ev' = [ManagerEvent("refresh", task, current_model_id)
                      EXCEPT !.exclude_models = exclude_models]
     ELSE /\ UNCHANGED <<calls, pc, local>>
          /\ ev' = [ManagerEvent(op, task, current_model_id)
                      EXCEPT !.exclude_models = exclude_models,
                             !.ret = best_model(models, exclude_models, now)]

GetBestModel(task) ==
  \E exclude_models \in SUBSET ModelIds :
    StartSelection(task, "get_best_model", NoName, exclude_models)

RotateModel(task) ==
  \E current_model_id \in ModelIds :
    StartSelection(task, "rotate_model", current_model_id, {current_model_id})

\* discover_free_models is called and waits for the listing.
DiscoverFreeModels(task) ==
  /\ pc[task] = "idle"
  /\ calls < MaxOps
  /\ calls' = calls + 1
  /\ pc' = [pc EXCEPT ![task] = "discovering"]
  /\ local' = [local EXCEPT ![task] = [NoLocal EXCEPT !.op = "discover_free_models"]]
  /\ ev' = ManagerEvent("discover", task, NoName)
  /\ UNCHANGED <<now, models, rate_limit_tracker, last_discovery,
                 circuit_breaker_threshold, recoveryVars>>

\* The listing arrives and its models are stored, or the request for it
\* fails.  A probe
\* in flight for a model that was stored anew holds the old object.  No
\* await follows: a get_best_model or rotate_model that asked for the
\* refresh makes its selection in the same step.
ListingArrives(task) ==
  /\ pc[task] = "discovering"
  /\ \E outcome \in DiscoveryOutcomes :
       LET listed == outcome.listed
           complete == outcome.complete
           ms == store_listing(models, listed)
           mine == local[task]
           stored == {listed[i] : i \in 1..Len(listed)}
       IN /\ models' = ms
          /\ last_discovery' = IF complete THEN now ELSE last_discovery
          /\ local' = [t \in ManagerTasks |->
                         IF t = task
                         THEN NoLocal
                         ELSE IF pc[t] = "testing" /\ local[t].model_id \in stored
                              THEN [local[t] EXCEPT !.orphan = TRUE]
                              ELSE local[t]]
          /\ ev' = [ManagerEvent(mine.op, task, mine.model_id)
                      EXCEPT !.exclude_models = mine.exclude_models,
                             !.listed = listed,
                             !.success = complete,
                             !.ret = IF mine.op = "discover_free_models"
                                     THEN NoName
                                     ELSE best_model(ms, mine.exclude_models, now)]
  /\ pc' = [pc EXCEPT ![task] = "idle"]
  /\ UNCHANGED <<now, calls, rate_limit_tracker, circuit_breaker_threshold,
                 recoveryVars>>

\* test_model_health(model_id) up to the await of the probe.  The health
\* check loop probes the models whose status is AVAILABLE or ERROR.
TestModelHealth(task) ==
  /\ pc[task] = "idle"
  /\ \E model_id \in ModelIds :
       LET i == Position(models, model_id)
       IN /\ task = "health_check"
               => (i # 0 /\ models[i].status \in {"AVAILABLE", "ERROR"})
          /\ IF i = 0
             THEN /\ ev' = [ManagerEvent("test_model_health", task, model_id)
                              EXCEPT !.ret = FALSE]
                  /\ UNCHANGED <<models, pc, local, calls>>
             ELSE /\ calls < MaxOps
                  /\ calls' = calls + 1
                  /\ models' = [models EXCEPT ![i].status = "TESTING"]
                  /\ pc' = [pc EXCEPT ![task] = "testing"]
                  /\ local' = [local EXCEPT ![task] =
                                 [NoLocal EXCEPT !.op = "test_model_health",
                                                 !.model_id = model_id]]
                  /\ ev' = ManagerEvent("probe", task, model_id)
  /\ UNCHANGED <<now, rate_limit_tracker, last_discovery,
                 circuit_breaker_threshold, recoveryVars>>

\* The probe comes back and test_model_health returns.
ProbeReturns(task) ==
  /\ pc[task] = "testing"
  /\ \E outcome \in ProbeOutcomes,
        response_time \in ResponseTimes \cup {NoNumber} :
       LET mine == local[task]
           i == Position(models, mine.model_id)
       IN /\ (outcome = "200") = (response_time # NoNumber)
          /\ models' = IF mine.orphan
                       THEN models
                       ELSE [models EXCEPT ![i] =
                               probe_result(@, outcome, response_time, now)]
          /\ ev' = [ManagerEvent("test_model_health", task, mine.model_id)
                      EXCEPT !.success = ~mine.orphan,
                             !.response_time = response_time,
                             !.ret = (outcome = "200")]
  /\ pc' = [pc EXCEPT ![task] = "idle"]
  /\ local' = [local EXCEPT ![task] = NoLocal]
  /\ UNCHANGED <<now, calls, rate_limit_tracker, last_discovery,
                 circuit_breaker_threshold, recoveryVars>>

\* check_rate_limits(model_id): it never suspends.
CheckRateLimits ==
  /\ UNCHANGED calls
  /\ \E model_id \in ModelIds :
       LET r == check_rate_limits(models, rate_limit_tracker, model_id, now)
       IN /\ models' = r.models
          /\ rate_limit_tracker' = r.rate_limit_tracker
          /\ ev' = [ManagerEvent("check_rate_limits", NoName, model_id)
                      EXCEPT !.ret = r.ret,
                             !.admitted =
                               IF ~r.ret
                               THEN 0
                               ELSE IF /\ ev.op = "check_rate_limits"
                                       /\ ev.model_id = model_id
                                    THEN Min(ev.admitted + 1, MaxRpm + 1)
                                    ELSE 1]
  /\ UNCHANGED <<now, pc, local, last_discovery, circuit_breaker_threshold,
                 recoveryVars>>

\* record_request(model_id, success, response_time): it never suspends.
RecordRequest ==
  /\ calls < MaxOps
  /\ calls' = calls + 1
  /\ \E model_id \in ModelIds, success \in BOOLEAN,
        response_time \in ResponseTimes \cup {NoNumber} :
       LET r == record_request(models, rate_limit_tracker,
                               circuit_breaker_threshold, model_id, success,
                               response_time, now)
       IN /\ models' = r.models
          /\ rate_limit_tracker' = r.rate_limit_tracker
          /\ ev' = [ManagerEvent("record_request", NoName, model_id)
                      EXCEPT !.success = success,
                             !.response_time = response_time]
  /\ UNCHANGED <<now, pc, local, last_discovery, circuit_breaker_threshold,
                 recoveryVars>>

\* Time passes: a minute, or the discovery interval and a minute.
Elapse ==
  /\ \E dt \in {1, discovery_interval + 1} :
       /\ now + dt <= MaxTime + discovery_interval
       /\ dt = 1 => (now % discovery_interval) < MaxTime
       /\ now' = now + dt
  /\ calls < MaxOps
  /\ calls' = calls + 1
  /\ ev' = ManagerEvent("elapse", NoName, NoName)
  /\ UNCHANGED <<pc, recoveryVars, managerVars>>

NextModels ==
  \/ GetBestModel("client")
  \/ RotateModel("client")
  \/ DiscoverFreeModels("client")
  \/ \E task \in ManagerTasks : ListingArrives(task)
  \/ \E task \in ManagerTasks : TestModelHealth(task)
  \/ \E task \in ManagerTasks : ProbeReturns(task)
  \/ CheckRateLimits
  \/ RecordRequest
  \/ Elapse

SpecModels == InitModels /\ [][NextModels]_vars

\* The manager after __aenter__ stored a listing and then stayed idle for
\* longer than discovery_interval: the next selection finds a refresh due.
InitStale ==
  /\ \E outcome \in DiscoveryOutcomes :
       /\ outcome.complete
       /\ models \in Declared(store_listing(<< >>, outcome.listed))
  /\ last_discovery = 0
  /\ rate_limit_tracker = NoRequests
  /\ circuit_breaker_threshold = MaxThreshold
  /\ local = [t \in ManagerTasks |-> NoLocal]
  /\ pc = [t \in ManagerTasks |-> "idle"]
  /\ now = discovery_interval + 1
  /\ calls = 0
  /\ ev = NoEvent
  /\ circuit_breakers = << >>
  /\ retry_policies = << >>
  /\ frame = << >>
  /\ hist = << >>
  /\ hStreak = 0
  /\ hEpisode = NoEpisode
  /\ recovery_strategies = << >>
  /\ hRegistered = << >>

SpecStale == InitStale /\ [][NextModels]_vars

\* ====================================================== get_system_health
\* CircuitState(...).value, the string a status report carries
state_value(state) ==
  CASE state = "CLOSED" -> "closed"
    [] state = "OPEN" -> "open"
    [] state = "HALF_OPEN" -> "half_open"

\* datetime.isoformat() of a clock reading
isoformat(t) == [isoformat |-> t]

\* CircuitBreaker.get_status
get_status(name, cb) ==
  [name |-> name,
   state |-> state_value(cb.state),
   failure_count |-> cb.failure_count,
   success_count |-> cb.success_count,
   last_failure_time |-> IF cb.last_failure_time # NoTime
                         THEN isoformat(cb.last_failure_time)
                         ELSE [isoformat |-> NoTime],
   metrics |-> [total_errors |-> cb.metrics.total_errors,
                consecutive_errors |-> cb.metrics.consecutive_errors,
                successful_recoveries |-> cb.metrics.successful_recoveries]]

\* ErrorRecoveryManager.global_metrics: set in __init__ and never written again
global_metrics == ErrorMetrics

\* mutant: every breaker that is not CLOSED is counted as open
get_system_health_counts_not_closed(cbs) ==
  LET total_circuit_breakers == Cardinality(DOMAIN cbs)
      open_circuit_breakers ==
        Cardinality({n \in DOMAIN cbs : cbs[n].state # "CLOSED"})
  IN [total_errors |-> global_metrics.total_errors,
      consecutive_errors |-> global_metrics.consecutive_errors,
      circuit_breakers |->
        [total |-> total_circuit_breakers,
         open |-> open_circuit_breakers,
         closed |-> total_circuit_breakers - open_circuit_breakers],
      circuit_breaker_details |->
        [n \in DOMAIN cbs |-> get_status(n, cbs[n])]]

\* ErrorRecoveryManager.get_system_health
get_system_health(cbs) ==
  LET total_circuit_breakers == Cardinality(DOMAIN cbs)
      open_circuit_breakers ==
        Cardinality({n \in DOMAIN cbs : cbs[n].state = "OPEN"})
  IN [total_errors |-> global_metrics.total_errors,
      consecutive_errors |-> global_metrics.consecutive_errors,
      circuit_breakers |->
        [total |-> total_circuit_breakers,
         open |-> open_circuit_breakers,
         closed |-> total_circuit_breakers - open_circuit_breakers],
      circuit_breaker_details |->
        [n \in DOMAIN cbs |-> get_status(n, cbs[n])]]

\* get_system_health(): synchronous, it reads the breakers between two steps
\* of the tasks that are calling through them and changes nothing.
GetSystemHealth ==
  /\ ev' = [op |-> "get_system_health",
            report |-> get_system_health(circuit_breakers),
            pre |-> circuit_breakers]
  /\ UNCHANGED <<circuit_breakers, retry_policies, now, calls, pc, frame,
                 hist, hStreak, hEpisode, managerVars, recovery_strategies,
                 hRegistered>>

NextHealth ==
  \/ Next
  \/ GetSystemHealth

SpecHealth == Init /\ [][NextHealth]_vars

\* ================================================== recovery strategies
\* The callables registered as strategies, by name, and what one call of a
\* strategy can do: return a truthy or a falsy value, or raise an Exception.
Strategies == {"strategy_a", "strategy_b"}
StrategyOutcomes == {"truthy", "falsy", "raises"}

\* register_recovery_strategy: self.recovery_strategies[error_type] = strategy
register_recovery_strategy_keeps_first(strategies, error_type, strategy) ==
  IF error_type \in DOMAIN strategies
  THEN strategies
  ELSE [t \in DOMAIN strategies \cup {error_type} |->
          IF t = error_type THEN strategy ELSE strategies[t]]

register_recovery_strategy(strategies, error_type, strategy) ==
  [t \in DOMAIN strategies \cup {error_type} |->
     IF t = error_type THEN strategy ELSE strategies[t]]

\* attempt_recovery after the strategy's await: True when the result is
\* truthy; a falsy result falls through to return False, and an Exception
\* raised by the strategy is caught, logged, and followed by return False.
recovery_result_raise_is_success(outcome) == outcome # "falsy"

recovery_result(outcome) == outcome = "truthy"

NoRecovery == [error_type |-> NoName, strategy |-> NoName]

\* The step just taken by the recovery manager: ret is the value returned by
\* attempt_recovery, raised whether the call ended with an exception instead.
RecoveryEvent(op, c, error_type, strategy, outcome, ret) ==
  [op |-> op, c |-> c, error_type |-> error_type, strategy |-> strategy,
   outcome |-> outcome, ret |-> ret, raised |-> FALSE,
   pre |-> recovery_strategies, registered |-> hRegistered]

InitRecovery ==
  /\ circuit_breakers = << >>
  /\ retry_policies = << >>
  /\ now = 0
  /\ calls = 0
  /\ pc = [c \in {MainTask} |-> "idle"]
  /\ frame = [c \in {MainTask} |-> NoRecovery]
  /\ hist = << >>
  /\ hStreak = 0
  /\ hEpisode = NoEpisode
  /\ recovery_strategies = << >>
  /\ hRegistered = << >>
  /\ ev = RecoveryEvent("init", NoName, NoName, NoName, NoName, FALSE)
  /\ NoManager

\* register_recovery_strategy(error_type, strategy): synchronous, so it can
\* run while an attempt_recovery call is suspended in its strategy.
RegisterRecoveryStrategy ==
  /\ calls < MaxCalls
  /\ \E error_type \in OpErrors, strategy \in Strategies :
       /\ recovery_strategies' =
            register_recovery_strategy(recovery_strategies, error_type,
                                       strategy)
       /\ hRegistered' =
            Append(hRegistered,
                   [error_type |-> error_type, strategy |-> strategy])
       /\ ev' = RecoveryEvent("register_recovery_strategy", NoName,
                              error_type, strategy, NoName, FALSE)
  /\ calls' = calls + 1
  /\ UNCHANGED <<circuit_breakers, retry_policies, now, pc, frame, hist,
                 hStreak, hEpisode, managerVars>>

\* attempt_recovery(error, context) up to its await: with no strategy under
\* type(error).__name__ it returns False at once, otherwise it reads the
\* strategy into a local and suspends in the strategy's call.
AttemptRecovery(c) ==
  /\ pc[c] = "idle"
  /\ \E error_type \in OpErrors :
       IF error_type \in DOMAIN recovery_strategies
       THEN /\ pc' = [pc EXCEPT ![c] = "recovering"]
            /\ frame' = [frame EXCEPT ![c] =
                           [error_type |-> error_type,
                            strategy |-> recovery_strategies[error_type]]]
            /\ ev' = RecoveryEvent("strategy_called", c, error_type,
                                   recovery_strategies[error_type], NoName,
                                   FALSE)
       ELSE /\ ev' = RecoveryEvent("attempt_recovery", c, error_type, NoName,
                                   NoName, FALSE)
            /\ UNCHANGED <<pc, frame>>
  /\ UNCHANGED <<circuit_breakers, retry_policies, now, calls, hist, hStreak,
                 hEpisode, recovery_strategies, hRegistered, managerVars>>

\* The awaited strategy finishes and attempt_recovery returns.
StrategyReturns(c) ==
  /\ pc[c] = "recovering"
  /\ \E outcome \in StrategyOutcomes :
       ev' = RecoveryEvent("attempt_recovery", c, frame[c].error_type,
                           frame[c].strategy, outcome,
                           recovery_result(outcome))
  /\ pc' = [pc EXCEPT ![c] = "idle"]
  /\ frame' = [frame EXCEPT ![c] = NoRecovery]
  /\ UNCHANGED <<circuit_breakers, retry_policies, now, calls, hist, hStreak,
                 hEpisode, recovery_strategies, hRegistered, managerVars>>

NextRecovery ==
  \/ RegisterRecoveryStrategy
  \/ AttemptRecovery(MainTask)
  \/ StrategyReturns(MainTask)

SpecRecovery == InitRecovery /\ [][NextRecovery]_vars

\* ------------------------------------------------------------------ claims
Breaker == circuit_breakers[BreakerName]
Before == ev.pre[BreakerName]
Gate == ev.op \in {"admit", "reject"}
Elapsed(b) == now - b.last_failure_time >= b.config.recovery_timeout

\* C1: from a CLOSED breaker with failure_count 0, the failure that makes
\* failure_threshold failed calls in a row leaves the breaker OPEN, and every
\* call that arrives at an OPEN breaker less than recovery_timeout after
\* last_failure_time raises CircuitBreakerOpenError and leaves it OPEN.
C1_OpensAtThreshold ==
  /\ (ev.op = "failure" /\ hStreak = Breaker.config.failure_threshold)
       => Breaker.state = "OPEN"
  /\ (Gate /\ Before.state = "OPEN" /\ ~Elapsed(Before))
       => (ev.op = "reject" /\ ev.value = CircuitBreakerOpenError
           /\ Breaker.state = "OPEN")

C1_Witness ==
  /\ ev.op = "reject"
  /\ Before.state = "OPEN"
  /\ hStreak = Breaker.config.failure_threshold
  /\ Breaker.config.failure_threshold >= 2

\* C2: a call rejected at an OPEN breaker before recovery_timeout, or at a
\* HALF_OPEN breaker whose half_open_calls has reached half_open_max_calls,
\* does not invoke the operation and leaves every field of the breaker, its
\* error metrics included, as it was.
C2_RejectChangesNothing ==
  (/\ ev.op = "reject"
   /\ \/ Before.state = "OPEN" /\ ~Elapsed(Before)
      \/ /\ Before.state = "HALF_OPEN"
         /\ Before.half_open_calls >= Before.config.half_open_max_calls)
  => (/\ circuit_breakers = ev.pre
      /\ ~ev.invoked
      /\ pc[ev.c] # "running")

C2_Witness ==
  /\ ev.op = "reject"
  /\ Before.state = "HALF_OPEN"
  /\ Before.metrics.total_errors >= 1
  /\ circuit_breakers = ev.pre

\* C3: a success recorded while the breaker is CLOSED leaves it CLOSED.
C3_SuccessKeepsClosed ==
  (ev.op = "success" /\ Before.state = "CLOSED") => Breaker.state = "CLOSED"

C3_Witness ==
  /\ ev.op = "success"
  /\ Before.state = "CLOSED"
  /\ Before.failure_count >= 1
  /\ Breaker.state = "CLOSED"

\* C4: a failure recorded while the breaker is HALF_OPEN leaves it OPEN with
\* success_count 0, whatever success_count and failure_count were.
C4_HalfOpenFailureOpens ==
  (ev.op = "failure" /\ Before.state = "HALF_OPEN")
  => (Breaker.state = "OPEN" /\ Breaker.success_count = 0)

C4_Witness ==
  /\ ev.op = "failure"
  /\ Before.state = "HALF_OPEN"
  /\ Before.success_count >= 1
  /\ Breaker.state = "OPEN"

\* C5: a HALF_OPEN breaker has recorded fewer than success_threshold
\* successes since it became HALF_OPEN and success_count is their number; it
\* stays HALF_OPEN over every step that is neither a recorded failure nor the
\* success that makes success_threshold, and that success leaves it CLOSED
\* with failure_count 0 and success_count 0.
C5_HalfOpenClosesAtThreshold ==
  /\ Breaker.state = "HALF_OPEN"
       => (/\ hEpisode.successes < Breaker.config.success_threshold
           /\ Breaker.success_count = hEpisode.successes)
  /\ (/\ Before.state = "HALF_OPEN"
      /\ ev.op # "failure"
      /\ ~(ev.op = "success"
           /\ hEpisode.successes >= Breaker.config.success_threshold))
       => Breaker.state = "HALF_OPEN"
  /\ (/\ Before.state = "HALF_OPEN"
      /\ ev.op = "success"
      /\ hEpisode.successes = Breaker.config.success_threshold)
       => (/\ Breaker.state = "CLOSED"
           /\ Breaker.failure_count = 0
           /\ Breaker.success_count = 0)

C5_Witness ==
  /\ ev.op = "success"
  /\ Before.state = "HALF_OPEN"
  /\ Before.success_count >= 1
  /\ Before.failure_count >= 1
  /\ Breaker.state = "CLOSED"

\* C6: while the breaker is HALF_OPEN, the calls admitted in this episode are
\* the first half_open_max_calls that arrived in it (the call that made the
\* breaker HALF_OPEN is the first): a call that arrives is admitted exactly
\* when fewer than half_open_max_calls arrived before it.
C6_HalfOpenAdmitsAtMost ==
  Breaker.state = "HALF_OPEN"
  => (/\ hEpisode.admitted =
           Min(hEpisode.arrivals, Breaker.config.half_open_max_calls)
      /\ Breaker.half_open_calls = hEpisode.admitted
      /\ Gate => (ev.op = "admit"
                    <=> hEpisode.arrivals <= Breaker.config.half_open_max_calls))

C6_Witness ==
  /\ ev.op = "reject"
  /\ Before.state = "HALF_OPEN"
  /\ Breaker.state = "HALF_OPEN"
  /\ hEpisode.admitted = Breaker.config.half_open_max_calls
  /\ hEpisode.arrivals > hEpisode.admitted

\* C7: while the breaker is HALF_OPEN, the operations in flight, whenever
\* they were admitted, number at most half_open_max_calls.
C7_InFlightWithinHalfOpenMax ==
  Breaker.state = "HALF_OPEN"
  => Cardinality(InFlight(BreakerName)) <= Breaker.config.half_open_max_calls

\* C8: a call that arrives at an OPEN breaker at least recovery_timeout after
\* last_failure_time makes it HALF_OPEN, is admitted as the first half-open
\* trial (half_open_calls = 1) and invokes the operation; one that arrives
\* earlier leaves the breaker OPEN.
C8_OpenRecoversAfterTimeout ==
  (Gate /\ Before.state = "OPEN")
  => IF Elapsed(Before)
     THEN /\ ev.op = "admit"
          /\ ev.invoked
          /\ pc[ev.c] = "running"
          /\ Breaker.state = "HALF_OPEN"
          /\ Breaker.half_open_calls = 1
          /\ hEpisode.admitted = 1
     ELSE Breaker.state = "OPEN"

C8_Witness ==
  /\ ev.op = "admit"
  /\ Before.state = "OPEN"
  /\ Before.half_open_calls >= 1
  /\ Elapsed(Before)
  /\ Breaker.half_open_calls = 1

\* C9: in a call of execute_with_protection with a registered breaker and a
\* registered retry policy, the operation is invoked only by an attempt that
\* CircuitBreaker.call admitted; an attempt that arrives at the OPEN breaker
\* before recovery_timeout raises CircuitBreakerOpenError without invoking
\* it; and a call whose max_attempts attempts were all rejected has made
\* max_attempts attempts, invoked the operation zero times and raises
\* CircuitBreakerOpenError.
C9_RetriesPassThroughBreaker ==
  (HasBreaker(ev.frame) /\ HasRetry(ev.frame))
  => LET p == retry_policies[ev.frame.retry_policy_name]
     IN /\ ev.invoked => ev.op = "admit"
        /\ ev.hist.func_calls = ev.hist.invocations + ev.hist.rejects
        /\ (Gate /\ Before.state = "OPEN" /\ ~Elapsed(Before))
             => (/\ ev.op = "reject"
                 /\ ~ev.invoked
                 /\ ev.value = CircuitBreakerOpenError
                 /\ circuit_breakers = ev.pre)
        /\ ev.hist.rejects = p.max_attempts
             => (/\ ev.hist.func_calls = p.max_attempts
                 /\ ev.hist.invocations = 0
                 /\ ev.result = [kind |-> "raise",
                                 value |-> CircuitBreakerOpenError])

C9_Witness ==
  /\ HasBreaker(ev.frame) /\ HasRetry(ev.frame)
  /\ retry_policies[PolicyName].max_attempts >= 2
  /\ ev.hist.rejects = retry_policies[PolicyName].max_attempts
  /\ ev.hist.waits = retry_policies[PolicyName].max_attempts - 1
  /\ Before.state = "OPEN"
  /\ ~Elapsed(Before)
  /\ ev.result.kind = "raise"

\* C10: under a registered retry policy, func is invoked at most
\* max_attempts times; a failure of an invocation before the max_attempts-th
\* does not end execute; and when an invocation succeeds after j failed ones,
\* execute returns the value of that invocation, having made exactly j + 1
\* invocations and exactly j delay waits.
C10_RetryReturnsFirstSuccess ==
  /\ \A c \in Callers :
       HasRetry(frame[c])
       => hist[c].func_calls <= retry_policies[frame[c].retry_policy_name].max_attempts
  /\ HasRetry(ev.frame)
     => LET p == retry_policies[ev.frame.retry_policy_name]
        IN /\ ev.hist.func_calls <= p.max_attempts
           /\ (ev.op \in {"failure", "reject"} /\ ev.hist.fails < p.max_attempts)
                => (ev.result.kind = "none" /\ pc[ev.c] = "sleeping")
           /\ ev.op = "success"
                => (/\ ev.result = [kind |-> "return", value |-> ev.value]
                    /\ ev.value \in OpValues
                    /\ ev.hist.func_calls = ev.hist.fails + 1
                    /\ ev.hist.waits = ev.hist.fails
                    /\ pc[ev.c] = "idle")

C10_Witness ==
  /\ HasRetry(ev.frame)
  /\ ev.op = "success"
  /\ ev.result.kind = "return"
  /\ ev.hist.fails >= 1
  /\ ev.hist.fails = retry_policies[PolicyName].max_attempts - 1

\* C11: under a registered retry policy, when every one of the max_attempts
\* invocations fails, execute raises the error that the final invocation
\* raised, after exactly max_attempts invocations and max_attempts - 1 delay
\* waits; no wait follows the final failure, and a failed invocation never
\* makes execute return normally.
C11_RetryRaisesLastError ==
  HasRetry(ev.frame)
  => LET p == retry_policies[ev.frame.retry_policy_name]
     IN /\ ev.op \in {"failure", "reject"} => ev.result.kind # "return"
        /\ (ev.op \in {"failure", "reject"} /\ ev.hist.fails = p.max_attempts)
             => (/\ ev.result = [kind |-> "raise", value |-> ev.value]
                 /\ pc[ev.c] = "idle")
        /\ ev.result.kind = "raise"
             => (/\ ev.op \in {"failure", "reject"}
                 /\ ev.hist.func_calls = p.max_attempts
                 /\ ev.hist.fails = p.max_attempts
                 /\ ev.hist.waits = p.max_attempts - 1)

C11_Witness ==
  /\ HasRetry(ev.frame)
  /\ ev.op = "failure"
  /\ ev.result = [kind |-> "raise", value |-> ev.value]
  /\ ev.frame.last_exception = CircuitBreakerOpenError
  /\ ev.value \in ServiceErrors
  /\ ev.hist.waits >= 1

\* C13: execute treats every kind of failure alike: after a failed
\* invocation under a retry policy, whether the loop waits or gives up, and
\* how long it waits, is determined by the policy and the attempt number
\* alone, for an error of the operation and for CircuitBreakerOpenError
\* alike; so two runs failing on the same attempts make the same number of
\* invocations and the same waits.
C13_RetryIgnoresErrorKind ==
  (HasRetry(ev.frame) /\ ev.op \in {"failure", "reject"})
  => LET p == retry_policies[ev.frame.retry_policy_name]
         k == ev.frame.attempt
     IN /\ ev.hist.func_calls = k
        /\ ev.hist.fails = k
        /\ IF k = p.max_attempts
           THEN /\ ev.result.kind = "raise"
                /\ ev.hist.waits = k - 1
           ELSE /\ ev.result.kind = "none"
                /\ pc[ev.c] = "sleeping"
                /\ ev.hist.waits = k
                /\ frame[ev.c].attempt = k
                /\ (frame[ev.c].wake_at - now) \in get_delay(p, k)

C13_Witness ==
  /\ HasRetry(ev.frame)
  /\ ev.op = "reject"
  /\ ev.value = CircuitBreakerOpenError
  /\ pc[ev.c] = "sleeping"
  /\ frame[ev.c].last_exception = CircuitBreakerOpenError
  /\ Breaker.metrics.errors_by_type["ConnectionError"] >= 1

\* C14: when the caller cancels execute while it waits in a delay or for
\* the operation, the call ends there: the operation is not invoked by that
\* step or afterwards for that call, the cancellation is what execute
\* raises, and the breaker is left as it was.
C14_CancelStopsRetrying ==
  ev.op \in {"cancel_op", "cancel_sleep"}
  => /\ ~ev.invoked
     /\ pc[ev.c] = "idle"
     /\ frame[ev.c] = NoFrame
     /\ hist[ev.c] = NoHist
     /\ ev.result = [kind |-> "raise", value |-> CancelledError]
     /\ ev.hist.invocations <= ev.frame.attempt
     /\ circuit_breakers = ev.pre

C14_Witness ==
  /\ ev.op = "cancel_op"
  /\ HasRetry(ev.frame)
  /\ ev.frame.attempt < retry_policies[ev.frame.retry_policy_name].max_attempts
  /\ ev.result.value = CancelledError
  /\ pc[ev.c] = "idle"

\* C12: for every attempt number k >= 1, get_delay(k) without jitter is
\* min(base_delay * backoff_factor^(k-1), max_delay); with jitter it lies
\* between half of that value and that value; so no delay exceeds max_delay.
C12_DelayFormula ==
  ev.op = "get_delay"
  => LET p == retry_policies[PolicyName]
         k == ev.attempt
         grown == p.base_delay * Pow(p.backoff_factor, k - 1)
         capped == IF grown <= p.max_delay THEN grown ELSE p.max_delay
     IN /\ k >= 1
        /\ ~p.jitter => ev.delay = capped
        /\ p.jitter => (2 * ev.delay >= capped /\ ev.delay <= capped)
        /\ ev.delay <= p.max_delay

C12_Witness ==
  /\ ev.op = "get_delay"
  /\ ev.attempt >= 2
  /\ retry_policies[PolicyName].jitter
  /\ retry_policies[PolicyName].backoff_factor >= 2
  /\ retry_policies[PolicyName].base_delay
       * Pow(retry_policies[PolicyName].backoff_factor, ev.attempt - 1)
       > retry_policies[PolicyName].max_delay
  /\ ev.delay < retry_policies[PolicyName].max_delay

\* C17: health_score is exactly 0 for a model whose status is UNAVAILABLE,
\* and with every other field fixed it does not increase when
\* consecutive_failures increases.
C17_ScoreZeroAndMonotone ==
  ev.op = "health_score"
  => /\ ev.model.status = "UNAVAILABLE" => ev.score = Frac(0, 1)
     /\ \A k \in 0..MaxFailures :
          LET fewer == [ev.model EXCEPT !.metrics.consecutive_failures = k]
              more == [ev.model EXCEPT !.metrics.consecutive_failures = k + 1]
          IN FLeq(health_score(more, now), health_score(fewer, now))

C17_Witness ==
  /\ ev.op = "health_score"
  /\ ev.model.status = "UNAVAILABLE"
  /\ ev.score = Frac(0, 1)
  /\ ev.model.metrics.consecutive_failures >= 1
  /\ LET up == [ev.model EXCEPT !.status = "AVAILABLE"]
         fewer == [up EXCEPT !.metrics.consecutive_failures = @ - 1]
     IN FLess(health_score(up, now), health_score(fewer, now))

\* C18: for a model that is not UNAVAILABLE, health_score is
\* (1 - error_rate) - min(0.5, 0.1 * consecutive_failures) + recency bonus
\* - min(0.3, max(0, 0.1 * (average_response_time - 2.0))) clamped to [0, 1],
\* the bonus being 0.2 * (1 - age / 3600 s) of the last success, at least 0
\* and 0 without one; it lies in [0, 1]; and with 10 requests, 2 of them
\* failed, no consecutive failures, an average response time of 1.0 s and no
\* recency bonus it is 0.8.
C18_ScoreFormula ==
  (ev.op = "health_score" /\ ev.model.status # "UNAVAILABLE")
  => LET m == ev.model.metrics
         L == 10 * ScoreDecay * m.error_rate.den * m.average_response_time.den
         success_rate == L - (L \div m.error_rate.den) * m.error_rate.num
         failure_penalty == Min(L \div 2, (L \div 10) * m.consecutive_failures)
         age == now - m.last_success
         bonus == IF m.last_success = NoTime \/ age >= ScoreDecay
                  THEN 0
                  ELSE (L \div (5 * ScoreDecay)) * (ScoreDecay - age)
         slow == (L \div (10 * m.average_response_time.den))
                   * (m.average_response_time.num - 2 * m.average_response_time.den)
         speed_penalty == Min(3 * (L \div 10), Max(0, slow))
         raw == success_rate - failure_penalty + bonus - speed_penalty
         clamped == Max(0, Min(L, raw))
     IN /\ ev.score.num * L = clamped * ev.score.den
        /\ 0 <= ev.score.num /\ ev.score.num <= ev.score.den
        /\ ( /\ m.total_requests = 10 /\ m.failed_requests = 2
             /\ m.consecutive_failures = 0
             /\ m.average_response_time = Frac(1, 1)
             /\ bonus = 0 )
           => ev.score = Frac(4, 5)

C18_Witness ==
  /\ ev.op = "health_score"
  /\ ev.model.status = "AVAILABLE"
  /\ ev.model.metrics.total_requests = 10
  /\ ev.model.metrics.failed_requests = 2
  /\ ev.model.metrics.consecutive_failures = 0
  /\ ev.model.metrics.average_response_time = Frac(1, 1)
  /\ ev.model.metrics.last_success # NoTime
  /\ now - ev.model.metrics.last_success >= ScoreDecay
  /\ ev.score = Frac(4, 5)

\* The model of the known set with this id
Known(ms, id) == ms[Position(ms, id)]

\* A selection has just returned: get_best_model or rotate_model
Selected == ev.op \in {"get_best_model", "rotate_model"}

\* C15: whatever record_request, check_rate_limits, test_model_health and
\* discovery have done before, get_best_model(exclude) never returns a model
\* that is in exclude or whose status is not AVAILABLE, and
\* rotate_model(current_id) never returns the model current_id.
C15_SelectionAvailableNotExcluded ==
  (Selected /\ ev.ret # NoName)
  => /\ Position(models, ev.ret) # 0
     /\ Known(models, ev.ret).status = "AVAILABLE"
     /\ ev.ret \notin ev.exclude_models
     /\ ev.op = "rotate_model" => ev.ret # ev.model_id

C15_Witness ==
  /\ ev.op = "rotate_model"
  /\ ev.ret # NoName
  /\ ev.ret # ev.model_id
  /\ Position(models, ev.model_id) # 0
  /\ Known(models, ev.model_id).status = "AVAILABLE"
  /\ FLess(health_score(Known(models, ev.ret), now),
           health_score(Known(models, ev.model_id), now))
  /\ Known(models, ev.ret).metrics.failed_requests >= 1

\* C16: get_best_model returns the model with the highest health_score
\* among those that are AVAILABLE and not excluded, among models with that
\* score the one that was added to the known set first, and it returns none
\* exactly when no model is AVAILABLE and not excluded.
C16_SelectionIsFirstBest ==
  Selected
  => LET eligible == {i \in 1..Len(models) :
                        /\ models[i].status = "AVAILABLE"
                        /\ models[i].id \notin ev.exclude_models}
     IN /\ (ev.ret = NoName) = (eligible = {})
        /\ ev.ret # NoName
             => LET r == Position(models, ev.ret)
                IN /\ r \in eligible
                   /\ \A i \in eligible :
                        /\ FLeq(health_score(models[i], now),
                                health_score(models[r], now))
                        /\ i < r => FLess(health_score(models[i], now),
                                          health_score(models[r], now))

C16_Witness ==
  /\ ev.op = "get_best_model"
  /\ ev.exclude_models = {}
  /\ Len(models) = 2
  /\ models[1].id = "m2"
  /\ models[1].status = "AVAILABLE"
  /\ models[2].status = "AVAILABLE"
  /\ health_score(models[1], now) = health_score(models[2], now)
  /\ ev.ret = "m2"

\* C19: after record_request has recorded a failure for a known model, the
\* model is UNAVAILABLE if its consecutive_failures has reached
\* circuit_breaker_threshold, and has the status it had before if it has
\* not.
C19_FailureTripsAtThreshold ==
  ( /\ ev.op = "record_request"
    /\ Position(ev.pre, ev.model_id) # 0
    /\ ~(ev.success /\ ev.response_time # NoNumber) )
  => LET before == Known(ev.pre, ev.model_id)
         after == Known(models, ev.model_id)
     IN /\ after.metrics.consecutive_failures
             = before.metrics.consecutive_failures + 1
        /\ after.metrics.consecutive_failures >= circuit_breaker_threshold
             => after.status = "UNAVAILABLE"
        /\ after.metrics.consecutive_failures < circuit_breaker_threshold
             => after.status = before.status

C19_Witness ==
  /\ ev.op = "record_request"
  /\ ~ev.success
  /\ Position(ev.pre, ev.model_id) # 0
  /\ Known(ev.pre, ev.model_id).status = "AVAILABLE"
  /\ Known(models, ev.model_id).status = "UNAVAILABLE"
  /\ Known(models, ev.model_id).metrics.consecutive_failures
       = circuit_breaker_threshold

\* The timestamps of the window before the check that are less than 60
\* seconds old at the check
KeptInWindow ==
  SelectSeq(ev.pre_tracker[ev.model_id], LAMBDA req_time : now - req_time < RateWindow)

\* The check found the model's declared capacity used up
CapacityReached ==
  /\ Position(ev.pre, ev.model_id) # 0
  /\ Known(ev.pre, ev.model_id).rate_limit_rpm # NoNumber
  /\ Len(KeptInWindow) >= Known(ev.pre, ev.model_id).rate_limit_rpm

C21_ChecksWithinCapacity ==
  ( /\ ev.op = "check_rate_limits"
    /\ Position(models, ev.model_id) # 0
    /\ Known(models, ev.model_id).rate_limit_rpm # NoNumber )
  => ev.admitted <= Known(models, ev.model_id).rate_limit_rpm

\* The strategy of the latest register_recovery_strategy call made for
\* error_type among the calls in log, or NoName when there is none.
RECURSIVE LatestRegistered(_, _)
LatestRegistered(log, error_type) ==
  IF log = << >> THEN NoName
  ELSE IF log[Len(log)].error_type = error_type THEN log[Len(log)].strategy
  ELSE LatestRegistered(SubSeq(log, 1, Len(log) - 1), error_type)

\* C22: attempt_recovery returns true only when a strategy is registered for
\* the error's kind and that strategy returns a truthy value; with no strategy
\* registered, or when the strategy raises, it returns false and raises
\* nothing.  The strategy it calls is the one most recently registered for
\* that kind.
C22_RecoveryOnlyByTruthyStrategy ==
  /\ ev.op = "strategy_called"
       => /\ ev.strategy # NoName
          /\ ev.strategy = LatestRegistered(ev.registered, ev.error_type)
  /\ ev.op = "attempt_recovery"
       => /\ ~ev.raised
          /\ ev.ret <=> (ev.strategy # NoName /\ ev.outcome = "truthy")
          /\ ev.strategy = NoName
               => LatestRegistered(ev.registered, ev.error_type) = NoName
C22_Witness ==
  /\ ev.op = "attempt_recovery"
  /\ ev.outcome = "raises"
  /\ ~ev.ret
  /\ Len(hRegistered) >= 2
  /\ hRegistered[1].error_type = ev.error_type
  /\ hRegistered[2].error_type = ev.error_type
  /\ hRegistered[1].strategy # hRegistered[2].strategy

\* C23: get_system_health reports for each registered breaker its current
\* state, failure_count and success_count, and its count of open breakers is
\* the number of registered breakers whose state is OPEN, also while calls
\* are in flight and failing.
C23_HealthReflectsBreakers ==
  ev.op = "get_system_health"
  => /\ DOMAIN ev.report.circuit_breaker_details = DOMAIN circuit_breakers
     /\ \A n \in DOMAIN circuit_breakers :
          LET d == ev.report.circuit_breaker_details[n]
              cb == circuit_breakers[n]
          IN /\ d.state = state_value(cb.state)
             /\ d.failure_count = cb.failure_count
             /\ d.success_count = cb.success_count
     /\ ev.report.circuit_breakers.open =
          Cardinality({n \in DOMAIN circuit_breakers :
                         circuit_breakers[n].state = "OPEN"})
C23_Witness ==
  /\ ev.op = "get_system_health"
  /\ ev.report.circuit_breakers.open = 1
  /\ Breaker.failure_count >= 1
  /\ \E c \in Callers : pc[c] = "running"

\* C24: a success recorded while the breaker is CLOSED changes failure_count
\* to max(0, failure_count - 1) and leaves the state CLOSED, a decay by one
\* and not a reset to 0; failure_count is never negative.
C24_SuccessDecaysFailureCount ==
  /\ Breaker.failure_count >= 0
  /\ (ev.op = "success" /\ Before.state = "CLOSED")
       => /\ Breaker.failure_count = Max(0, Before.failure_count - 1)
          /\ Breaker.state = "CLOSED"
C24_Witness ==
  /\ ev.op = "success"
  /\ Before.state = "CLOSED"
  /\ Before.failure_count = 2
  /\ Breaker.failure_count = 1
  /\ Breaker.state = "CLOSED"

\* C25: in every state of the manager a model is UNAVAILABLE only if its
\* consecutive_failures is at least circuit_breaker_threshold; record_request,
\* check_rate_limits, test_model_health and discovery never set UNAVAILABLE
\* below the threshold.
C25_UnavailableOnlyAtThreshold ==
  \A i \in 1..Len(models) :
    models[i].status = "UNAVAILABLE"
    => models[i].metrics.consecutive_failures >= circuit_breaker_threshold
C25_Witness ==
  /\ ev.op = "check_rate_limits"
  /\ Position(models, ev.model_id) # 0
  /\ Known(models, ev.model_id).status = "UNAVAILABLE"
  /\ Known(models, ev.model_id).metrics.consecutive_failures
       >= circuit_breaker_threshold
  /\ \E i \in 1..Len(models) : models[i].status = "AVAILABLE"

\* The places of the known models, not excluded by the selection just made,
\* whose status is in the set given
Candidates(statuses) ==
  {i \in 1..Len(models) : /\ models[i].status \in statuses
                          /\ models[i].id \notin ev.exclude_models}

\* C26 as stated: a model whose status is anything other than UNAVAILABLE and
\* whose id is not excluded is returned by get_best_model when it is the only
\* such model.
C26_AnyButUnavailableSelectable ==
  ev.op = "get_best_model"
  => \A i \in Candidates(ModelStatus \ {"UNAVAILABLE"}) :
       Candidates(ModelStatus \ {"UNAVAILABLE"}) = {i} => ev.ret = models[i].id

\* C26: AVAILABLE is the only status that get_best_model selects from: a
\* model that is AVAILABLE and not excluded is returned when it is the only
\* such model, and when there is none the selection returns none, also if
\* models that are RATE_LIMITED, ERROR or TESTING are known and not excluded.
C26_OnlyAvailableSelectable ==
  ev.op = "get_best_model"
  => /\ \A i \in Candidates({"AVAILABLE"}) :
          Candidates({"AVAILABLE"}) = {i} => ev.ret = models[i].id
     /\ Candidates({"AVAILABLE"}) = {} => ev.ret = NoName
C26_Witness ==
  /\ ev.op = "get_best_model"
  /\ Candidates({"AVAILABLE"}) = {}
  /\ Candidates({"RATE_LIMITED"}) # {}
  /\ Candidates({"UNAVAILABLE"}) = {}
  /\ ev.ret = NoName

\* C27: after any sequence of update_success and update_failure, through
\* record_request or test_model_health, the metrics of every known model have
\* successful_requests + failed_requests = total_requests with all three
\* non-negative, and error_rate = failed_requests / total_requests, 0 when
\* total_requests is 0.
C27_CountersAddUp ==
  \A i \in 1..Len(models) :
    LET m == models[i].metrics
    IN /\ m.successful_requests >= 0
       /\ m.failed_requests >= 0
       /\ m.total_requests >= 0
       /\ m.successful_requests + m.failed_requests = m.total_requests
       /\ m.error_rate = IF m.total_requests = 0
                         THEN Frac(0, 1)
                         ELSE Frac(m.failed_requests, m.total_requests)
C27_Witness ==
  /\ ev.op = "test_model_health"
  /\ Position(models, ev.model_id) # 0
  /\ Known(models, ev.model_id).metrics.successful_requests = 1
  /\ Known(models, ev.model_id).metrics.failed_requests = 1
  /\ Known(models, ev.model_id).metrics.error_rate = Frac(1, 2)

\* C28: for a known model, an outcome recorded with success = true leaves
\* consecutive_failures at 0, and one recorded with success = false leaves it
\* one greater than before.
C28_OutcomeSetsConsecutiveFailures ==
  (ev.op = "record_request" /\ Position(ev.pre, ev.model_id) # 0)
  => LET before == Known(ev.pre, ev.model_id).metrics.consecutive_failures
         after == Known(models, ev.model_id).metrics.consecutive_failures
     IN /\ ev.success => after = 0
        /\ ~ev.success => after = before + 1

\* C29: average_response_time is the arithmetic mean of the response times
\* passed to update_success so far, 0 when there is none: it is 0 while no
\* success is recorded, and each recorded success with response time x takes
\* the mean of n - 1 latencies to the mean of n, average' * n =
\* average * (n - 1) + x with n the number of successes.
C29_AverageIsMeanOfLatencies ==
  /\ \A i \in 1..Len(models) :
       models[i].metrics.successful_requests = 0
       => models[i].metrics.average_response_time = Frac(0, 1)
  /\ ( /\ ev.op = "record_request"
       /\ Position(ev.pre, ev.model_id) # 0
       /\ ev.success
       /\ ev.response_time # NoNumber )
     => LET before == Known(ev.pre, ev.model_id).metrics
            after == Known(models, ev.model_id).metrics
        IN FMul(after.average_response_time,
                Frac(after.successful_requests, 1))
             = FAdd(FMul(before.average_response_time,
                         Frac(before.successful_requests, 1)),
                    Frac(ev.response_time, 1))

\* C30: get_best_model and rotate_model, the discovery refresh they make when
\* the discovery interval has passed included, leave the metrics and the
\* status of every model that was known unchanged, and the model known.
C30_SelectionKeepsMetricsAndStatus ==
  Selected
  => \A i \in 1..Len(ev.pre) :
       /\ Position(models, ev.pre[i].id) # 0
       /\ Known(models, ev.pre[i].id).metrics = ev.pre[i].metrics
       /\ Known(models, ev.pre[i].id).status = ev.pre[i].status

\* A HALF_OPEN breaker that has admitted half_open_max_calls trials, none of
\* them still in flight: every call that arrives is rejected by the gate,
\* which changes nothing, and no operation is left to record an outcome.
HalfOpenExhausted ==
  /\ Breaker.state = "HALF_OPEN"
  /\ Breaker.half_open_calls >= Breaker.config.half_open_max_calls
  /\ InFlight(BreakerName) = {}

\* C31: a HALF_OPEN breaker at which calls keep arriving, every admitted
\* operation returning or raising, leaves HALF_OPEN in the end, for every
\* success_threshold and half_open_max_calls: it is never left HALF_OPEN with
\* all its trials used up and returned, where it rejects every call for ever.
C31_HalfOpenNeverExhausted == ~HalfOpenExhausted

\* C32: under every interleaving success_count is incremented only by the
\* success of a call that was admitted as a trial of the current HALF_OPEN
\* episode, never by a call admitted while the breaker was CLOSED or in an
\* earlier episode, so that success_count <= half_open_calls in every state.
C32_OnlyTrialsCountAsSuccesses ==
  /\ (ev.op = "success" /\ Before.state = "HALF_OPEN")
       => ev.c \in hEpisode.trials
  /\ Breaker.success_count <= Breaker.half_open_calls

\* C33: while the breaker is OPEN its last_failure_time does not change,
\* under every interleaving: the failure of a call that was admitted before
\* the breaker opened does not postpone the recovery.
C33_OpenKeepsLastFailureTime ==
  (Before.state = "OPEN" /\ Breaker.state = "OPEN")
  => Breaker.last_failure_time = Before.last_failure_time

\* The invocations of the operation made through the breaker so far, when
\* none of them has succeeded: those that failed and the one in flight
InvokedAllFailing ==
  Breaker.metrics.total_errors + Cardinality(InFlight(BreakerName))

\* C34: one sequential caller of execute_with_protection with the registered
\* breaker, starting from the fresh CLOSED breaker, whose operation has
\* failed every time: until recovery_timeout has elapsed after the breaker
\* opened the operation is invoked at most failure_threshold times in total,
\* whatever max_attempts is and however many protected calls are made, and
\* every attempt that arrives at the OPEN breaker before that raises
\* CircuitBreakerOpenError without invoking it.
C34_AlwaysFailingInvokedAtMostThreshold ==
  /\ ( /\ Breaker.metrics.successful_recoveries = 0
       /\ Breaker.half_open_calls = 0 )
     => /\ InvokedAllFailing <= Breaker.config.failure_threshold
        /\ Breaker.state = "OPEN"
             => /\ Breaker.metrics.total_errors = Breaker.config.failure_threshold
                /\ InFlight(BreakerName) = {}
  /\ ( /\ HasBreaker(ev.frame)
       /\ Gate
       /\ Before.state = "OPEN"
       /\ ~Elapsed(Before) )
     => /\ ev.op = "reject"
        /\ ~ev.invoked
        /\ ev.value = CircuitBreakerOpenError
        /\ Breaker.metrics.total_errors = Before.metrics.total_errors
C34_Witness ==
  /\ Breaker.metrics.successful_recoveries = 0
  /\ Breaker.half_open_calls = 0
  /\ Breaker.state = "OPEN"
  /\ Breaker.config.failure_threshold = 2
  /\ Breaker.metrics.total_errors = 2
  /\ HasBreaker(ev.frame) /\ HasRetry(ev.frame)
  /\ retry_policies[PolicyName].max_attempts = 2
  /\ ev.op = "reject"
  /\ ev.hist.rejects = 2
  /\ ev.hist.invocations = 0
  /\ ev.result.kind = "raise"
  /\ calls >= 2

\* C35: in every state of a breaker with failure_threshold >= 1, under any
\* interleaving of concurrent calls, a CLOSED breaker has failure_count below
\* failure_threshold and an OPEN breaker has last_failure_time set.
C35_ClosedBelowThresholdOpenHasTime ==
  /\ Breaker.state = "CLOSED"
       => Breaker.failure_count < Breaker.config.failure_threshold
  /\ Breaker.state = "OPEN" => Breaker.last_failure_time # NoTime
C35_Witness ==
  /\ ev.op = "success"
  /\ Before.state = "HALF_OPEN"
  /\ Before.failure_count >= Before.config.failure_threshold
  /\ Before.last_failure_time # NoTime
  /\ Breaker.state = "CLOSED"
  /\ Breaker.failure_count = 0
  /\ Cardinality(InFlight(BreakerName)) >= 1

\* C36: record_request(model_id, success = True) with response_time left out
\* is recorded as a success: it does not increment failed_requests or
\* consecutive_failures and does not make the model UNAVAILABLE.
C36_SuccessWithoutResponseTime ==
  ( /\ ev.op = "record_request"
    /\ Position(ev.pre, ev.model_id) # 0
    /\ ev.success
    /\ ev.response_time = NoNumber )
  => LET before == Known(ev.pre, ev.model_id)
         after == Known(models, ev.model_id)
     IN /\ after.metrics.failed_requests = before.metrics.failed_requests
        /\ after.metrics.consecutive_failures
             <= before.metrics.consecutive_failures
        /\ after.metrics.successful_requests
             = before.metrics.successful_requests + 1
        /\ before.status # "UNAVAILABLE" => after.status # "UNAVAILABLE"

\* C37: a model that check_rate_limits made RATE_LIMITED is AVAILABLE again
\* once its window has drained below its capacity and check_rate_limits has
\* run again, with no new discovery: after a check that returns true the
\* model is not RATE_LIMITED.
C37_RateLimitedClearsWhenDrained ==
  ( /\ ev.op = "check_rate_limits"
    /\ Position(models, ev.model_id) # 0
    /\ ev.ret )
  => Known(models, ev.model_id).status # "RATE_LIMITED"

\* C38: in every state of the manager an AVAILABLE model has
\* consecutive_failures below circuit_breaker_threshold, so get_best_model
\* never returns a model that has reached the threshold, whether its failures
\* were recorded by record_request or by test_model_health.
C38_AvailableBelowThreshold ==
  /\ \A i \in 1..Len(models) :
       models[i].status = "AVAILABLE"
       => models[i].metrics.consecutive_failures < circuit_breaker_threshold
  /\ (Selected /\ ev.ret # NoName)
       => Known(models, ev.ret).metrics.consecutive_failures
            < circuit_breaker_threshold
C38_Witness ==
  /\ ev.op = "get_best_model"
  /\ ev.ret # NoName
  /\ Known(models, ev.ret).metrics.consecutive_failures
       = circuit_breaker_threshold - 1
  /\ Known(models, ev.ret).metrics.consecutive_failures >= 1
  /\ \E i \in 1..Len(models) :
       /\ models[i].status = "ERROR"
       /\ models[i].metrics.consecutive_failures >= 1

\* C39: execute_with_protection with a breaker name or a retry policy name
\* that is not registered raises no configuration error: under an
\* unregistered breaker name the operation is invoked without any gating and
\* no breaker changes; under an unregistered retry policy name the operation
\* is attempted exactly once and its failure is raised without a retry.
C39_UnregisteredNamesPassThrough ==
  /\ (ev.op # "init" /\ ev.op # "tick"
      /\ ev.frame.circuit_breaker_name = UnknownName)
       => /\ circuit_breakers = ev.pre
          /\ ev.op \in {"invoke", "success", "failure"}
          /\ ev.hist.rejects = 0
          /\ ev.hist.invocations = ev.hist.func_calls
          /\ ev.result.kind = "raise" => ev.value \in ServiceErrors
  /\ (ev.op # "init" /\ ev.op # "tick"
      /\ ev.frame.retry_policy_name = UnknownName)
       => /\ ev.hist.func_calls = 1
          /\ ev.hist.waits = 0
          /\ pc[ev.c] # "sleeping"
          /\ ev.op \in {"failure", "reject"}
               => ev.result = [kind |-> "raise", value |-> ev.value]
C39_Witness ==
  /\ ev.op = "failure"
  /\ ev.frame.circuit_breaker_name = UnknownName
  /\ ev.frame.retry_policy_name = UnknownName
  /\ ev.result = [kind |-> "raise", value |-> ev.value]
  /\ ev.value \in ServiceErrors
  /\ ev.hist.invocations = 1
  /\ circuit_breakers = ev.pre
  /\ Breaker.state = "OPEN"

====
